---- MODULE Spec2Model ----
(***************************************************************************)
(* Metadata resolution of the paper-bookmark server (src/src/server.ts,    *)
(* with the older src/server.js where the two differ).                     *)
(*                                                                         *)
(* Strings are finite sequences of tokens: a token is an atomic run of     *)
(* characters ("arxiv.org", "/abs/", "2301.00001", " ").  String.includes, *)
(* the regular expressions and trim/replace of the source are computed on  *)
(* these sequences, with one token in the role of one character class.     *)
(***************************************************************************)
EXTENDS Integers, Sequences, FiniteSets, TLC

VARIABLES probe, res, papers, sseClients, trace, reply, client, wss

vars == <<probe, res, papers, sseClients, trace, reply, client, wss>>

(***************************************************************************)
(* Bounds of the model.                                                    *)
(***************************************************************************)
\* longest URL, in tokens, handed to the classifier harness
MaxUrlLen == 3

(***************************************************************************)
(* String helpers.                                                         *)
(***************************************************************************)
\* String.prototype.includes: needle occurs as a contiguous run of s
Includes(s, needle) ==
    \E i \in 0..(Len(s) - Len(needle)) :
        SubSeq(s, i + 1, i + Len(needle)) = needle

\* all token sequences over alphabet A of length at most n
RECURSIVE SeqsUpTo(_, _)
SeqsUpTo(A, n) ==
    IF n = 0 THEN { <<>> }
    ELSE LET shorter == SeqsUpTo(A, n - 1)
         IN  shorter \cup { Append(s, a) : s \in shorter, a \in A }

(***************************************************************************)
(* Values that can arrive as `url`: a JSON value of the request body.      *)
(* kind "str": s is the string; kind "arr": s lists the array's elements,  *)
(* each a one-token string; the other kinds carry no string.               *)
(***************************************************************************)
StrVal(s) == [kind |-> "str", s |-> s]
ArrVal(s) == [kind |-> "arr", s |-> s]
NumVal    == [kind |-> "num", s |-> <<>>]
NullVal   == [kind |-> "null", s |-> <<>>]
ObjVal    == [kind |-> "obj", s |-> <<>>]

\* the label standing for a TypeError thrown instead of a returned label
TypeError == "TypeError"

\* v.includes(needle) of JavaScript, for a one-token needle: substring search
\* on a string, element search on an array, not a function on anything else
HasIncludes(v) == v.kind \in {"str", "arr"}
JsIncludes(v, tok) == \E i \in 1..Len(v.s) : v.s[i] = tok

(***************************************************************************)
(* detectSource, src/src/server.ts:344-357.                                *)
(***************************************************************************)
\* a variant that tests doi.org before arxiv.org
detectSourceSwapped(v) ==
    IF ~HasIncludes(v) THEN TypeError
    ELSE IF JsIncludes(v, "doi.org") THEN "DOI"
    ELSE IF JsIncludes(v, "arxiv.org") THEN "arXiv"
    ELSE IF JsIncludes(v, "ieee.org") THEN "IEEE"
    ELSE IF JsIncludes(v, "acm.org") THEN "ACM"
    ELSE IF JsIncludes(v, "springer.com") THEN "Springer"
    ELSE IF JsIncludes(v, "nature.com") THEN "Nature"
    ELSE IF JsIncludes(v, "sciencedirect.com") THEN "ScienceDirect"
    ELSE IF JsIncludes(v, "ncbi.nlm.nih.gov") \/ JsIncludes(v, "pubmed") THEN "PubMed"
    ELSE IF JsIncludes(v, "semanticscholar.org") THEN "Semantic Scholar"
    ELSE IF JsIncludes(v, "openreview.net") THEN "OpenReview"
    ELSE IF JsIncludes(v, "github.com") THEN "GitHub"
    ELSE "Web"

detectSource(v) ==
    IF ~HasIncludes(v) THEN TypeError
    ELSE IF JsIncludes(v, "arxiv.org") THEN "arXiv"
    ELSE IF JsIncludes(v, "doi.org") THEN "DOI"
    ELSE IF JsIncludes(v, "ieee.org") THEN "IEEE"
    ELSE IF JsIncludes(v, "acm.org") THEN "ACM"
    ELSE IF JsIncludes(v, "springer.com") THEN "Springer"
    ELSE IF JsIncludes(v, "nature.com") THEN "Nature"
    ELSE IF JsIncludes(v, "sciencedirect.com") THEN "ScienceDirect"
    ELSE IF JsIncludes(v, "ncbi.nlm.nih.gov") \/ JsIncludes(v, "pubmed") THEN "PubMed"
    ELSE IF JsIncludes(v, "semanticscholar.org") THEN "Semantic Scholar"
    ELSE IF JsIncludes(v, "openreview.net") THEN "OpenReview"
    ELSE IF JsIncludes(v, "github.com") THEN "GitHub"
    ELSE "Web"

(***************************************************************************)
(* detectSource, src/server.js:447-461: the same chain with one more test. *)
(***************************************************************************)
detectSourceJs(v) ==
    IF ~HasIncludes(v) THEN TypeError
    ELSE IF JsIncludes(v, "arxiv.org") THEN "arXiv"
    ELSE IF JsIncludes(v, "doi.org") THEN "DOI"
    ELSE IF JsIncludes(v, "ieee.org") THEN "IEEE"
    ELSE IF JsIncludes(v, "acm.org") THEN "ACM"
    ELSE IF JsIncludes(v, "springer.com") THEN "Springer"
    ELSE IF JsIncludes(v, "nature.com") THEN "Nature"
    ELSE IF JsIncludes(v, "sciencedirect.com") THEN "ScienceDirect"
    ELSE IF JsIncludes(v, "ncbi.nlm.nih.gov") \/ JsIncludes(v, "pubmed") THEN "PubMed"
    ELSE IF JsIncludes(v, "semanticscholar.org") THEN "Semantic Scholar"
    ELSE IF JsIncludes(v, "openreview.net") THEN "OpenReview"
    ELSE IF JsIncludes(v, "github.com") THEN "GitHub"
    ELSE IF JsIncludes(v, "huggingface.co") THEN "HuggingFace"
    ELSE "Web"

(***************************************************************************)
(* JavaScript values carried by a PaperMetadata field or a JSON member:    *)
(* the same shape as a request value.  "undef" is undefined / an absent    *)
(* member.                                                                 *)
(***************************************************************************)
UndefVal == [kind |-> "undef", s |-> <<>>]
EmptyStr == StrVal(<<>>)

\* Boolean(v) of JavaScript: "", 0 (no number of the model), null, undefined
\* are falsy; objects, arrays and non-empty strings are truthy
Truthy(v) ==
    CASE v.kind = "str" -> v.s # <<>>
      [] v.kind \in {"null", "undef"} -> FALSE
      [] OTHER -> TRUE

\* a ?? b
Nullish(v) == v.kind \in {"null", "undef"}
Coalesce(v, d) == IF Nullish(v) THEN d ELSE v

(***************************************************************************)
(* Whitespace: /\s/ matches the tokens " " and "\n".                       *)
(***************************************************************************)
WS == {" ", "\n"}

RECURSIVE TrimLeft(_)
TrimLeft(s) ==
    IF s = <<>> THEN <<>>
    ELSE IF Head(s) \in WS THEN TrimLeft(Tail(s)) ELSE s

RECURSIVE TrimRight(_)
TrimRight(s) ==
    IF s = <<>> THEN <<>>
    ELSE IF s[Len(s)] \in WS THEN TrimRight(SubSeq(s, 1, Len(s) - 1)) ELSE s

\* String.prototype.trim
Trim(s) == TrimRight(TrimLeft(s))

\* s.replace(/\s+/g, ' '): every maximal run of whitespace becomes one " "
RECURSIVE CollapseWs(_)
CollapseWs(s) ==
    IF s = <<>> THEN <<>>
    ELSE IF Head(s) \in WS
         THEN <<" ">> \o CollapseWs(TrimLeft(s))
         ELSE <<Head(s)>> \o CollapseWs(Tail(s))

\* Array.prototype.join of a list of strings
RECURSIVE Join(_, _)
Join(list, sep) ==
    IF list = <<>> THEN <<>>
    ELSE IF Len(list) = 1 THEN list[1]
    ELSE list[1] \o sep \o Join(Tail(list), sep)

CommaSp == <<",", " ">>

\* s.replace(/<[^>]*>/g, ''): markup tokens are the ones that open with "<"
MarkupToks == {"<jats:p>", "</jats:p>", "<i>", "</i>"}
StripTags(s) == SelectSeq(s, LAMBDA t : t \notin MarkupToks)

(***************************************************************************)
(* URLs and the ID patterns of the resolvers.                              *)
(***************************************************************************)
NoId == ""

ArxivIds == {"2301.00001"}
DoiIds   == {"10.1145/3290605"}
\* matches "doi":"(10\.[^"]+)" of an IEEE page but not 10\.\d{4,}\/
ShortDoi == "10.1/x"
Digits   == {"12345", "9999"}
HexIds   == {"abc123"}
NoteIds  == {"AbC123"}

\* the capture of the leftmost match of (?:p1|p2|...)(id), p ranging over
\* the token sequences `prefixes`, id over the tokens `ids`; NoId when the
\* pattern matches nowhere
MatchId(u, prefixes, ids) ==
    LET hits == { i \in 1..Len(u) :
                    /\ u[i] \in ids
                    /\ \E p \in prefixes :
                         /\ Len(p) < i
                         /\ SubSeq(u, i - Len(p), i - 1) = p }
    IN  IF hits = {} THEN NoId
        ELSE u[CHOOSE i \in hits : \A j \in hits : i <= j]

\* /(?:arxiv.org\/(?:abs|pdf)\/|arxiv:)(\d+\.\d+)/i
ArxivIdOf(u) ==
    MatchId(u, { <<"arxiv.org", "/abs/">>, <<"arxiv.org", "/pdf/">>, <<"arxiv:">> },
            ArxivIds)

\* /(?:doi\.org\/|doi:)(10\.\d{4,}\/[^\s]+)/i
DoiIdOf(u) == MatchId(u, { <<"doi.org", "/">>, <<"doi:">> }, DoiIds)

\* /(?:pubmed\.ncbi\.nlm\.nih\.gov\/|pubmed\/)(\d+)/i
PmidOf(u) ==
    MatchId(u, { <<"pubmed", ".", "ncbi.nlm.nih.gov", "/">>, <<"pubmed", "/">> },
            Digits)

\* /semanticscholar\.org\/paper\/(?:[^/]+\/)?([a-f0-9]+)/i
PaperIdOf(u) ==
    MatchId(u, { <<"semanticscholar.org", "/paper/">>,
                 <<"semanticscholar.org", "/paper/", "Some-Title", "/">> },
            HexIds \cup Digits)

\* /openreview\.net\/(?:forum|pdf)\?id=([^&]+)/i
ForumIdOf(u) ==
    MatchId(u, { <<"openreview.net", "/forum", "?id=">>,
                 <<"openreview.net", "/pdf", "?id=">> },
            NoteIds \cup Digits)

\* /ieee\.org\/document\/(\d+)/i
IeeeDocOf(u) == MatchId(u, { <<"ieee.org", "/document/">> }, Digits)

\* /dl\.acm\.org\/doi\/(10\.\d{4,}\/[^\s?#]+)/i
AcmDoiOf(u) == MatchId(u, { <<"dl.", "acm.org", "/doi/">> }, DoiIds)

\* `https://doi.org/${doi}`
DoiUrl(doi) == <<"https://", "doi.org", "/", doi>>

\* url.toLowerCase().endsWith('.pdf') || url.includes('/pdf/')
IsPdfUrl(u) ==
    \/ Len(u) > 0 /\ u[Len(u)] \in {".pdf", ".PDF"}
    \/ Includes(u, <<"/pdf/">>)

\* url ends in .pdf, in either case
EndsInPdf(u) == Len(u) > 0 /\ u[Len(u)] \in {".pdf", ".PDF"}

\* fetch() rejects a string that is no absolute http(s) URL
WellFormed(u) == Len(u) > 0 /\ u[1] \in {"https://", "http://"}

\* the URL strings a resolution is started with
Urls ==
    { <<"https://", "arxiv.org", "/abs/", "2301.00001">>,
      <<"https://", "arxiv.org", "/list/">>,
      <<"https://", "doi.org", "/", "10.1145/3290605">>,
      <<"https://", "doi.org", "/", "abc">>,
      <<"https://", "pubmed", ".", "ncbi.nlm.nih.gov", "/", "12345">>,
      <<"https://", "ncbi.nlm.nih.gov", "/", "books">>,
      <<"https://", "semanticscholar.org", "/paper/", "abc123">>,
      <<"https://", "semanticscholar.org", "/search">>,
      <<"https://", "openreview.net", "/forum", "?id=", "AbC123">>,
      <<"https://", "openreview.net", "/group">>,
      <<"https://", "ieee.org", "/document/", "9999">>,
      <<"https://", "ieee.org", "/abstract/">>,
      <<"https://", "dl.", "acm.org", "/doi/", "10.1145/3290605">>,
      <<"https://", "acm.org", "/news">>,
      <<"https://", "dl.", "acm.org", "/paper", ".pdf">>,
      <<"https://", "springer.com", "/article">>,
      <<"https://", "example.com", "/page">>,
      <<"https://", "example.com", "/paper", ".pdf">>,
      <<"https://", "huggingface.co", "/papers">>,
      <<"example.com">>,
      <<>> }

\* the values a request body can carry as `url`
RouteInputs ==
    { StrVal(u) : u \in Urls }
        \cup { NumVal, NullVal, ObjVal, ArrVal(<<>>), ArrVal(<<"arxiv.org">>) }

(***************************************************************************)
(* PaperMetadata and the result of a parsing step.                         *)
(***************************************************************************)
Md(u, t, a, b, src) ==
    [url |-> u, title |-> t, authors |-> a, abstract |-> b, source |-> src]

\* { url, title: '', authors: '', abstract: '', source }
EmptyMd(u, src) == Md(u, EmptyStr, EmptyStr, EmptyStr, src)

\* a step that ran to its return statement / a step that threw
Returned(md) == [thrown |-> FALSE, md |-> md]
Thrown == [thrown |-> TRUE, md |-> EmptyMd(UndefVal, "")]

(***************************************************************************)
(* arXiv: the Atom feed is a sequence of elements [tag, text].             *)
(***************************************************************************)
XmlEl(tag, text) == [tag |-> tag, text |-> text]
ElemsOf(body, tag) == SelectSeq(body.els, LAMBDA e : e.tag = tag)

TitleTexts ==
    { <<"Example", " ", "Paper", " ", "Title">>,
      <<" ", "Deep", "\n", " ", "Nets", " ">> }
NameTexts == { <<"Jane", " ", "Doe">>, <<"John", " ", "Roe">> }
SummaryTexts ==
    { <<"This", " ", "is", " ", "the", " ", "abstract.">>,
      <<"\n", "We", " ", "\n", "show.", " ">> }

\* most <title> elements, and most <name> elements, of a modelled feed
MaxTitles == 2
MaxNames == 2

ElSeqs(tag, texts, n) ==
    { [i \in 1..Len(ts) |-> XmlEl(tag, ts[i])] : ts \in SeqsUpTo(texts, n) }

ArxivBodies ==
    { [fmt |-> "atom", els |-> ts \o ns \o ss] :
        ts \in ElSeqs("title", TitleTexts, MaxTitles),
        ns \in ElSeqs("name", NameTexts, MaxNames),
        ss \in ElSeqs("summary", SummaryTexts, 1) }

\* a variant that takes the first <title> element
parseArxivFirstTitle(u, body) ==
    LET titleMatch == ElemsOf(body, "title")
        authorMatches == ElemsOf(body, "name")
        summaryMatch == ElemsOf(body, "summary")
    IN  Returned(Md(u,
            StrVal(IF Len(titleMatch) >= 1
                   THEN CollapseWs(Trim(titleMatch[1].text)) ELSE <<>>),
            StrVal(Join([i \in 1..Len(authorMatches) |-> Trim(authorMatches[i].text)],
                        CommaSp)),
            StrVal(IF Len(summaryMatch) >= 1
                   THEN CollapseWs(Trim(summaryMatch[1].text)) ELSE <<>>),
            "arXiv"))

\* src/src/server.ts:408-431.  match(/<title>...<\/title>/g) is the list of
\* all <title> elements and titleMatch[1] the second of them; the <summary>
\* pattern has no g flag, so summaryMatch[1] is the text of the first one.
parseArxiv(u, body) ==
    LET titleMatch == ElemsOf(body, "title")
        authorMatches == ElemsOf(body, "name")
        summaryMatch == ElemsOf(body, "summary")
    IN  Returned(Md(u,
            StrVal(IF Len(titleMatch) >= 2
                   THEN CollapseWs(Trim(titleMatch[2].text)) ELSE <<>>),
            StrVal(Join([i \in 1..Len(authorMatches) |-> Trim(authorMatches[i].text)],
                        CommaSp)),
            StrVal(IF Len(summaryMatch) >= 1
                   THEN CollapseWs(Trim(summaryMatch[1].text)) ELSE <<>>),
            "arXiv"))

(***************************************************************************)
(* CrossRef: the JSON document of api.crossref.org/works/{doi}.            *)
(*   top      "null" (the document is null), "nomsg" (an object without    *)
(*            message), "msg"                                              *)
(*   title    message.title: absent, or a list of values                   *)
(*   author   message.author: absent ("undef"), a list of {given, family}  *)
(*            ("arr"), or a string ("str")                                 *)
(*   abstract message.abstract: a value                                    *)
(***************************************************************************)
Person(given, family) == [given |-> given, family |-> family]
Given == StrVal(<<"Jane">>)
Family == StrVal(<<"Doe">>)
CrossrefPersons ==
    { Person(Given, Family), Person(UndefVal, Family), Person(UndefVal, UndefVal) }

\* most entries of a modelled author list
MaxAuthors == 2

CrossrefTitles ==
    { [present |-> FALSE, items |-> <<>>],
      [present |-> TRUE, items |-> <<>>],
      [present |-> TRUE, items |-> <<StrVal(<<"Deep", " ", "Nets">>)>>] }
CrossrefAuthors ==
    { [kind |-> "undef", items |-> <<>>], [kind |-> "str", items |-> <<>>] }
        \cup { [kind |-> "arr", items |-> l] : l \in SeqsUpTo(CrossrefPersons, MaxAuthors) }
CrossrefAbstracts ==
    { UndefVal, NumVal,
      StrVal(<<"<jats:p>", " ", "We", " ", "show.", "</jats:p>">>) }

CrossrefDoc(top, t, a, b) ==
    [fmt |-> "crossref", top |-> top, title |-> t, author |-> a, abstract |-> b]

CrossrefBodies ==
    { CrossrefDoc(top, [present |-> FALSE, items |-> <<>>],
                  [kind |-> "undef", items |-> <<>>], UndefVal) :
        top \in {"null", "nomsg"} }
      \cup { CrossrefDoc("msg", t, a, b) :
               t \in CrossrefTitles, a \in CrossrefAuthors, b \in CrossrefAbstracts }

\* [a.given, a.family].filter(Boolean).join(' ')
PersonName(a) ==
    Join(SelectSeq(<<a.given.s, a.family.s>>, LAMBDA s : s # <<>>), <<" ">>)

\* a variant that maps over message.author without testing that it is there
parseCrossrefNoAuthorGuard(u, body) ==
    IF body.top = "null" THEN Thrown
    ELSE IF body.top = "nomsg" THEN Returned(EmptyMd(u, "DOI"))
    ELSE IF body.author.kind # "arr" THEN Thrown
    ELSE IF Truthy(body.abstract) /\ body.abstract.kind # "str" THEN Thrown
    ELSE Returned(Md(u,
            IF body.title.present /\ body.title.items # <<>>
            THEN Coalesce(body.title.items[1], EmptyStr) ELSE EmptyStr,
            StrVal(Join([i \in 1..Len(body.author.items) |->
                            PersonName(body.author.items[i])], CommaSp)),
            IF Truthy(body.abstract)
            THEN StrVal(Trim(StripTags(body.abstract.s))) ELSE EmptyStr,
            "DOI"))

\* src/src/server.ts:456-480
parseCrossref(u, body) ==
    IF body.top = "null" THEN Thrown                  \* data.message of null
    ELSE IF body.top = "nomsg" THEN Returned(EmptyMd(u, "DOI"))
    ELSE IF body.author.kind = "str" THEN Thrown      \* work.author.map is no function
    ELSE IF Truthy(body.abstract) /\ body.abstract.kind # "str"
         THEN Thrown                                  \* work.abstract.replace is no function
    ELSE Returned(Md(u,
            IF body.title.present /\ body.title.items # <<>>
            THEN Coalesce(body.title.items[1], EmptyStr) ELSE EmptyStr,
            IF body.author.kind = "arr"
            THEN StrVal(Join([i \in 1..Len(body.author.items) |->
                                PersonName(body.author.items[i])], CommaSp))
            ELSE EmptyStr,
            IF Truthy(body.abstract)
            THEN StrVal(Trim(StripTags(body.abstract.s))) ELSE EmptyStr,
            "DOI"))

(***************************************************************************)
(* PubMed: the efetch XML, as the parts the patterns pick: <ArticleTitle>, *)
(* the <Author> blocks with <ForeName>/<LastName>, <AbstractText>.         *)
(***************************************************************************)
Part(present, text) == [present |-> present, text |-> text]
Absent == Part(FALSE, <<>>)

PubmedTitles ==
    { Absent, Part(TRUE, <<" ", "Gene", " ", "<i>", "BRCA1", "</i>", " ">>) }
PubmedAbstracts == { Absent, Part(TRUE, <<"We", " ", "show.", "\n">>) }

PubmedBodies ==
    { [fmt |-> "pubmed", title |-> t, authors |-> l, abstract |-> b] :
        t \in PubmedTitles, l \in SeqsUpTo(CrossrefPersons, MaxAuthors),
        b \in PubmedAbstracts }

\* src/src/server.ts:497-525
parsePubMed(u, body) ==
    Returned(Md(u,
        StrVal(IF body.title.present /\ body.title.text # <<>>
               THEN Trim(StripTags(body.title.text)) ELSE <<>>),
        StrVal(Join([i \in 1..Len(body.authors) |-> PersonName(body.authors[i])],
                    CommaSp)),
        StrVal(IF body.abstract.present /\ body.abstract.text # <<>>
               THEN Trim(StripTags(body.abstract.text)) ELSE <<>>),
        "PubMed"))

(***************************************************************************)
(* Semantic Scholar: the JSON document of the Graph API.                   *)
(*   authors  absent ("undef") or a list ("arr") of the name members       *)
(***************************************************************************)
S2Names == { StrVal(<<"Jane", " ", "Doe">>), UndefVal }
S2Texts == { UndefVal, NullVal, StrVal(<<"Deep", " ", "Nets">>) }

S2Doc(top, t, a, b) ==
    [fmt |-> "s2", top |-> top, title |-> t, authors |-> a, abstract |-> b]

S2Bodies ==
    { S2Doc("null", UndefVal, [kind |-> "undef", items |-> <<>>], UndefVal) }
      \cup { S2Doc("obj", t, a, b) :
               t \in S2Texts,
               a \in { [kind |-> "undef", items |-> <<>>] }
                       \cup { [kind |-> "arr", items |-> l] :
                                l \in SeqsUpTo(S2Names, MaxAuthors) },
               b \in S2Texts }

\* src/src/server.ts:549-564
parseSemanticScholar(u, body) ==
    IF body.top = "null" THEN Thrown                  \* data.title of null
    ELSE Returned(Md(u,
            Coalesce(body.title, EmptyStr),
            IF body.authors.kind = "arr"
            THEN StrVal(Join(
                   LET named == SelectSeq(body.authors.items, Truthy)
                   IN  [i \in 1..Len(named) |-> named[i].s], CommaSp))
            ELSE EmptyStr,
            Coalesce(body.abstract, EmptyStr),
            "Semantic Scholar"))

(***************************************************************************)
(* OpenReview: the JSON document of api.openreview.net/notes.              *)
(*   top      "null", "nonotes", "emptynotes" (notes: []), "note"          *)
(*   content  whether notes[0].content is present                          *)
(*   a member is absent ("undef"), a bare value ("bare"), an object with   *)
(*   the value under `value` ("wrapped") or an object without `value`      *)
(*   ("hollow")                                                            *)
(***************************************************************************)
Member(shape, v) == [shape |-> shape, v |-> v]
NoMember == Member("undef", <<>>)

OrTexts == { <<>>, <<"Deep", " ", "Nets">> }
OrNames == { <<"Jane", " ", "Doe">>, <<"John", " ", "Roe">> }

OrScalars ==
    { NoMember, Member("hollow", <<>>) }
      \cup { Member(sh, s) : sh \in {"bare", "wrapped"}, s \in OrTexts }
OrLists ==
    { NoMember }
      \cup { Member(sh, l) : sh \in {"bare", "wrapped"}, l \in SeqsUpTo(OrNames, MaxAuthors) }

OrDoc(top, content, t, a, b) ==
    [fmt |-> "openreview", top |-> top, content |-> content,
     title |-> t, authors |-> a, abstract |-> b]

OpenReviewBodies ==
    { OrDoc(top, FALSE, NoMember, NoMember, NoMember) :
        top \in {"null", "nonotes", "emptynotes", "note"} }
      \cup { OrDoc("note", TRUE, t, a, b) :
               t \in OrScalars, a \in OrLists,
               b \in { NoMember }
                       \cup { Member(sh, s) : sh \in {"bare", "wrapped"},
                                              s \in { <<>>, <<"We", " ", "show.">> } } }

\* typeof m === 'object' && m?.value ? m.value : typeof m === 'string' ? m : ''
OrScalar(m) ==
    IF m.shape = "wrapped" /\ m.v # <<>> THEN m.v
    ELSE IF m.shape = "bare" THEN m.v
    ELSE <<>>

\* a variant that knows the legacy shape only
OrAuthorsLegacy(m) ==
    IF m.shape = "bare" THEN Join(m.v, CommaSp) ELSE <<>>

\* src/src/server.ts:609-616
OrAuthors(m) ==
    IF m.shape = "undef" THEN <<>>
    ELSE IF m.shape = "wrapped" THEN Join(m.v, CommaSp)
    ELSE IF m.shape = "bare" THEN Join(m.v, CommaSp)
    ELSE <<>>

\* src/src/server.ts:593-631
parseOpenReview(u, body) ==
    IF body.top = "null" THEN Thrown                  \* data.notes of null
    ELSE IF body.top \in {"nonotes", "emptynotes"}
         THEN Returned(EmptyMd(u, "OpenReview"))
    ELSE LET content == IF body.content THEN body
                        ELSE OrDoc("note", FALSE, NoMember, NoMember, NoMember)
         IN  Returned(Md(u,
                StrVal(OrScalar(content.title)),
                StrVal(OrAuthors(content.authors)),
                StrVal(OrScalar(content.abstract)),
                "OpenReview"))

(***************************************************************************)
(* HTML pages: the sequence, in document order, of the tags the patterns   *)
(* can match.                                                              *)
(*   kind "name"  <meta name="key" content="...">                          *)
(*   kind "prop"  <meta property="key" content="...">                      *)
(*   kind "title" <title>...</title>                                       *)
(*   kind "doi"   a "doi":"..." member of the page's embedded JSON         *)
(***************************************************************************)
Tag(kind, key, content) == [kind |-> kind, key |-> key, content |-> content]

HtmlTags ==
    { Tag("name", "citation_title", <<"Deep", " ", "Nets">>),
      Tag("prop", "og:title", <<"R", "&amp;", "D">>),
      Tag("title", "", <<" ", "Home", " ">>),
      Tag("title", "", <<"Q", "&amp;", "A">>),
      Tag("name", "citation_author", <<"Jane", " ", "Doe">>),
      Tag("name", "citation_author", <<"John", " ", "Roe">>),
      Tag("name", "author", <<"Sam">>),
      Tag("name", "citation_abstract", <<"We", " ", "show.">>),
      Tag("name", "description", <<"a", "&lt;", "b">>),
      Tag("prop", "og:description", <<"Summary">>) }
DoiTags ==
    { Tag("doi", "", <<"10.1145/3290605">>), Tag("doi", "", <<ShortDoi>>) }

\* most tags of a modelled page
MaxTags == 2

HtmlBodies(tags) ==
    { [fmt |-> "html", tags |-> ts] : ts \in SeqsUpTo(tags, MaxTags) }

\* html.match(pattern)?.[1] ?? '': the content of the first tag, in document
\* order, of one of `kinds` with one of `keys` and a non-empty content
FirstContent(body, kinds, keys) ==
    LET hits == SelectSeq(body.tags,
                          LAMBDA g : g.kind \in kinds /\ g.key \in keys
                                     /\ g.content # <<>>)
    IN  IF hits = <<>> THEN <<>> ELSE hits[1].content

\* html.match(/<meta\s+name="citation_author"\s+content="([^"]+)"/gi), mapped
\* to the contents, filter(Boolean), join(', ')
CitationAuthors(body) ==
    LET hits == SelectSeq(body.tags,
                          LAMBDA g : g.kind = "name" /\ g.key = "citation_author"
                                     /\ g.content # <<>>)
    IN  [i \in 1..Len(hits) |-> hits[i].content]

\* s.replace(pattern, rep) with the g flag, pattern one of the token runs pats
RECURSIVE ReplaceAll(_, _, _)
ReplaceAll(s, pats, rep) ==
    IF s = <<>> THEN <<>>
    ELSE LET hit == { p \in pats : Len(p) <= Len(s) /\ SubSeq(s, 1, Len(p)) = p }
         IN  IF hit = {}
             THEN <<Head(s)>> \o ReplaceAll(Tail(s), pats, rep)
             ELSE LET p == CHOOSE q \in hit : TRUE
                  IN  rep \o ReplaceAll(SubSeq(s, Len(p) + 1, Len(s)), pats, rep)

\* the token runs that spell an entity: the entity as one token, or an "&"
\* (as a replacement leaves it) followed by the rest of the entity
Entity(name) == { <<"&" \o name>>, <<"&", name>> }

\* src/src/server.ts:866-875
decodeHtmlEntities(text) ==
    LET s1 == ReplaceAll(text, Entity("amp;"), <<"&">>)
        s2 == ReplaceAll(s1, Entity("lt;"), <<"<">>)
        s3 == ReplaceAll(s2, Entity("gt;"), <<">">>)
        s4 == ReplaceAll(s3, Entity("quot;"), <<"\"">>)
        s5 == ReplaceAll(s4, Entity("#39;"), <<"'">>)
        s6 == ReplaceAll(s5, Entity("nbsp;"), <<" ">>)
    IN  Trim(s6)

\* the entities of decodeHtmlEntities and the character each stands for
EntityNames == {"amp;", "lt;", "gt;", "quot;", "#39;", "nbsp;"}

EntityChar(name) ==
    CASE name = "amp;" -> "&"
      [] name = "lt;" -> "<"
      [] name = "gt;" -> ">"
      [] name = "quot;" -> "\""
      [] name = "#39;" -> "'"
      [] name = "nbsp;" -> " "

\* the same characters with every "&" a token of its own
RECURSIVE Chars(_)
Chars(s) ==
    IF s = <<>> THEN <<>>
    ELSE IF \E n \in EntityNames : Head(s) = "&" \o n
         THEN <<"&", CHOOSE n \in EntityNames : Head(s) = "&" \o n>> \o Chars(Tail(s))
    ELSE <<Head(s)>> \o Chars(Tail(s))

\* src/src/server.ts:1185-1192
escapeHtml(text) ==
    LET s1 == ReplaceAll(Chars(text), {<<"&">>}, <<"&amp;">>)
        s2 == ReplaceAll(s1, {<<"<">>}, <<"&lt;">>)
        s3 == ReplaceAll(s2, {<<">">>}, <<"&gt;">>)
        s4 == ReplaceAll(s3, {<<"\"">>}, <<"&quot;">>)
    IN  ReplaceAll(s4, {<<"'">>}, <<"&#39;">>)

\* a variant whose title is the first of the three title tags in document
\* order
parseGenericDocOrder(u, body, source) ==
    LET t1 == FirstContent(body, {"name", "prop", "title"},
                           {"citation_title", "og:title", ""})
        authorsMatch == CitationAuthors(body)
        authors == IF authorsMatch # <<>> THEN Join(authorsMatch, CommaSp)
                   ELSE FirstContent(body, {"name"}, {"author"})
        a1 == FirstContent(body, {"name"}, {"citation_abstract"})
        a2 == IF a1 = <<>> THEN FirstContent(body, {"name"}, {"description"}) ELSE a1
        abstract == IF a2 = <<>> THEN FirstContent(body, {"prop"}, {"og:description"})
                    ELSE a2
    IN  Returned(Md(u, StrVal(decodeHtmlEntities(Trim(t1))),
                    StrVal(decodeHtmlEntities(authors)),
                    StrVal(decodeHtmlEntities(abstract)), source))

\* a variant without the <title> fallback
parseGenericNoTitleTag(u, body, source) ==
    LET t1 == FirstContent(body, {"name"}, {"citation_title"})
        title == IF t1 = <<>> THEN FirstContent(body, {"prop"}, {"og:title"}) ELSE t1
        authorsMatch == CitationAuthors(body)
        authors == IF authorsMatch # <<>> THEN Join(authorsMatch, CommaSp)
                   ELSE FirstContent(body, {"name"}, {"author"})
        a1 == FirstContent(body, {"name"}, {"citation_abstract"})
        a2 == IF a1 = <<>> THEN FirstContent(body, {"name"}, {"description"}) ELSE a1
        abstract == IF a2 = <<>> THEN FirstContent(body, {"prop"}, {"og:description"})
                    ELSE a2
    IN  Returned(Md(u, StrVal(decodeHtmlEntities(title)),
                    StrVal(decodeHtmlEntities(authors)),
                    StrVal(decodeHtmlEntities(abstract)), source))

\* src/src/server.ts:826-859
parseGeneric(u, body, source) ==
    LET t1 == FirstContent(body, {"name"}, {"citation_title"})
        t2 == IF t1 = <<>> THEN FirstContent(body, {"prop"}, {"og:title"}) ELSE t1
        title == IF t2 = <<>> THEN Trim(FirstContent(body, {"title"}, {""})) ELSE t2
        authorsMatch == CitationAuthors(body)
        authors == IF authorsMatch # <<>> THEN Join(authorsMatch, CommaSp)
                   ELSE FirstContent(body, {"name"}, {"author"})
        a1 == FirstContent(body, {"name"}, {"citation_abstract"})
        a2 == IF a1 = <<>> THEN FirstContent(body, {"name"}, {"description"}) ELSE a1
        abstract == IF a2 = <<>> THEN FirstContent(body, {"prop"}, {"og:description"})
                    ELSE a2
    IN  Returned(Md(u, StrVal(decodeHtmlEntities(title)),
                    StrVal(decodeHtmlEntities(authors)),
                    StrVal(decodeHtmlEntities(abstract)), source))

\* the meta-tag scraping of fetchIEEEMetadata and fetchACMMetadata,
\* src/src/server.ts:655-663 and 691-698
parseMeta(u, body, source) ==
    Returned(Md(u,
        StrVal(FirstContent(body, {"name", "prop"}, {"citation_title", "og:title"})),
        StrVal(Join(CitationAuthors(body), CommaSp)),
        StrVal(FirstContent(body, {"name", "prop"}, {"description", "og:description"})),
        source))

\* html.match(/"doi":"(10\.[^"]+)"/)?.[1], src/src/server.ts:649
PageDoi(body) ==
    LET hits == SelectSeq(body.tags, LAMBDA g : g.kind = "doi")
    IN  IF hits = <<>> THEN NoId ELSE hits[1].content[1]

(***************************************************************************)
(* PDF documents, as the PDF parser reports them.                          *)
(*   info   the document-info dictionary: Title and Author                 *)
(*   text   the text of the first three pages: its non-blank lines (s the  *)
(*          trimmed line, n its length in characters) and the section an   *)
(*          "abstract" label opens (n the characters between the label and *)
(*          the first blank line or introduction/keywords heading, 0 when  *)
(*          there is no such end)                                          *)
(***************************************************************************)
PdfInfos ==
    { [Title |-> ti, Author |-> au] :
        ti \in { UndefVal, NumVal, StrVal(<<"Deep", " ", "Nets", " ">>) },
        au \in { UndefVal, StrVal(<<" ", "Jane", " ", "Doe">>) } }

Line(s, n) == [s |-> s, n |-> n]
HeaderLine == Line(<<"arXiv", ":", "2301.00001">>, 16)
NumberLine == Line(<<"12345">>, 5)
UrlLine == Line(<<"https://", "example.com", "/page">>, 24)
TitleLine == Line(<<"Deep", " ", "Nets", " ", "Explained">>, 19)

Section(label, n, s) == [label |-> label, n |-> n, s |-> s]
PdfTexts ==
    { [fmt |-> "pdftext", lines |-> ls, abs |-> ab] :
        ls \in { <<>>, <<TitleLine>>, <<HeaderLine, TitleLine>>, <<NumberLine, UrlLine>> },
        ab \in { Section(FALSE, 0, <<>>),
                 Section(TRUE, 20, <<"Too", " ", "short.">>),
                 Section(TRUE, 120, <<" ", "We", "\n", "show.", " ">>) } }

\* the words of /^(page|vol|volume|issue|doi|arxiv|\d+)[\s.:]/i
HeaderWords == {"page", "vol", "volume", "issue", "doi", "arxiv", "arXiv"} \cup Digits

\* the test of src/src/server.ts:762-766 on a trimmed line
LooksLikeTitle(l) ==
    /\ l.n > 10
    /\ l.n < 300
    /\ ~(Len(l.s) >= 2 /\ l.s[1] \in HeaderWords /\ l.s[2] \in WS \cup {".", ":"})
    /\ ~(Len(l.s) = 1 /\ l.s[1] \in Digits)
    /\ ~(Len(l.s) >= 1 /\ l.s[1] \in {"https://", "http://"})

\* src/src/server.ts:759-770: the first of the first ten lines that passes
FirstTitleLine(lines) ==
    LET firstTen == SubSeq(lines, 1, IF Len(lines) < 10 THEN Len(lines) ELSE 10)
        hits == SelectSeq(firstTen, LooksLikeTitle)
    IN  IF hits = <<>> THEN <<>> ELSE hits[1].s

\* src/src/server.ts:774-783: [\s\S]{50,1500}? up to the end of the section
AbstractOf(text) ==
    IF text.abs.label /\ text.abs.n >= 50 /\ text.abs.n <= 1500
    THEN Trim(CollapseWs(text.abs.s)) ELSE <<>>

\* src/src/server.ts:743-791, the part of parsePdfBuffer after the two awaits
extractPdf(u, info, text, source) ==
    LET fullText == text.lines # <<>> \/ text.abs.label
        t0 == Coalesce(info.Title, EmptyStr)
        authors == Coalesce(info.Author, EmptyStr)
        title == IF ~Truthy(t0) /\ fullText THEN StrVal(FirstTitleLine(text.lines))
                 ELSE t0
    IN  IF title.kind # "str" \/ authors.kind # "str" THEN Thrown    \* .trim is no function
        ELSE Returned(Md(u, StrVal(Trim(title.s)), StrVal(Trim(authors.s)),
                         StrVal(IF fullText THEN AbstractOf(text) ELSE <<>>), source))

\* src/src/server.ts:705
MAX_PDF_SIZE == 52428800

\* the content-length header of a response: absent, a decimal number, or
\* text parseInt makes NaN of
Header(kind, n) == [kind |-> kind, n |-> n]
NoLen == Header("absent", 0)
ContentLengths ==
    { NoLen, Header("text", 0), Header("num", 1024),
      Header("num", MAX_PDF_SIZE), Header("num", MAX_PDF_SIZE + 1) }

\* contentLength && parseInt(contentLength, 10) > MAX_PDF_SIZE
TooLarge(h) == h.kind = "num" /\ h.n > MAX_PDF_SIZE

(***************************************************************************)
(* One resolution: a call of fetchPaperMetadata, suspended at its awaits.  *)
(*   pc      "idle", "fetch" (awaiting fetch), "read" (awaiting text(),    *)
(*           json() or arrayBuffer()), "getInfo", "getText", "destroy"     *)
(*           (awaiting the PDF parser), "done"                             *)
(*   via     "call" (fetchPaperMetadata called with a string) or "route"   *)
(*           (POST /api/fetch-metadata)                                    *)
(*   stack   the async functions that are executing, innermost last; a     *)
(*           frame "ieeeTry"/"acmTry" is fetchIEEEMetadata/fetchACMMetadata*)
(*           inside its try block, "ieee"/"acm" outside of it              *)
(*   ep      the endpoint of the last outbound call, `how` the body read   *)
(*   durl    the argument of the executing fetchDoiMetadata                *)
(*   held    what parsePdfBuffer returns once its finally block has run    *)
(*   out     what fetchPaperMetadata gave its caller: a value or a throw   *)
(*   nfetch  outbound calls issued, nread body reads issued                *)
(*   parser  the PDFParse handle: "none", "open", "destroyed", "failed"    *)
(*   http    the status the route answered with, 0 while it has not        *)
(*   bytes   the size of the PDF body arrayBuffer() downloaded, 0 if none  *)
(*   raised  an exception was thrown inside the try of fetchPaperMetadata  *)
(*   failed  some outbound call was answered with a non-success status     *)
(*   handler the resolver fetchPaperMetadata dispatched to, "none" if none  *)
(* Outside the resolutions the server holds `papers`, the stored           *)
(* collection, and `sseClients`, the connected event-stream clients with   *)
(* the last event written to each.  trace[r] lists the completions (of     *)
(* fetch, body read and parser calls) resolution r has received.           *)
(***************************************************************************)
Rids == {"r1"}

NoResp == [ok |-> FALSE, ctype |-> "", clen |-> NoLen]
NoBody == [fmt |-> "none"]
NoInfo == [Title |-> UndefVal, Author |-> UndefVal]
NoOut == [kind |-> "none", md |-> EmptyMd(UndefVal, "")]

Idle ==
    [pc |-> "idle", via |-> "none", in |-> UndefVal, source |-> "", stack |-> <<>>,
     ep |-> "", how |-> "", durl |-> UndefVal, resp |-> NoResp, body |-> NoBody,
     info |-> NoInfo, held |-> Thrown, out |-> NoOut, nfetch |-> 0, nread |-> 0,
     parser |-> "none", http |-> 0, bytes |-> 0, raised |-> FALSE, failed |-> FALSE,
     handler |-> "none"]

Top(c) == c.stack[Len(c.stack)]
Pop(c) == [c EXCEPT !.stack = SubSeq(c.stack, 1, Len(c.stack) - 1)]
\* f is called; the function fetchPaperMetadata itself calls is the handler
Push(c, f) ==
    [c EXCEPT !.stack = Append(c.stack, f),
              !.handler = IF Len(c.stack) = 1 THEN f ELSE @]

\* an exception leaves fetchPaperMetadata; the route's catch answers 500
\* (src/src/server.ts:317-320)
ThrowOut(c) ==
    [c EXCEPT !.pc = "done", !.stack = <<>>, !.out = [kind |-> "throw", md |-> NoOut.md],
              !.http = IF c.via = "route" THEN 500 ELSE 0]

\* { ...metadata, source: 'IEEE' }, src/src/server.ts:652
ieeeRelabel(md) == [md EXCEPT !.source = "IEEE"]

\* a variant that returns the DOI resolver's record as it is
acmKeepLabel(md) == md

\* { ...metadata, source: 'ACM' }, src/src/server.ts:679
acmRelabel(md) == [md EXCEPT !.source = "ACM"]

\* the top frame returns md: through the callers (each `return await f()`)
\* down to fetchPaperMetadata's caller; parsePdfBuffer first runs its
\* finally block (src/src/server.ts:795-800)
RECURSIVE Return(_, _)
Return(c, md) ==
    IF Top(c) = "paper"
    THEN [c EXCEPT !.pc = "done", !.stack = <<>>,
                   !.out = [kind |-> "value", md |-> md],
                   !.http = IF c.via = "route" THEN 200 ELSE 0]
    ELSE IF Top(c) = "parse" /\ c.parser = "open"
    THEN [c EXCEPT !.pc = "destroy", !.held = Returned(md)]
    ELSE IF Top(c) = "doi" /\ Top(Pop(c)) = "ieeeTry"
    THEN Return(Pop(c), ieeeRelabel(md))
    ELSE IF Top(c) = "doi" /\ Top(Pop(c)) = "acm"
    THEN Return(Pop(c), acmRelabel(md))
    ELSE Return(Pop(c), md)

\* a variant without the try/catch of fetchPaperMetadata
paperCatchRethrow(c) == ThrowOut(c)

\* a variant whose catch block reports the generic label
paperCatchWeb(c) == Return(c, EmptyMd(c.in, "Web"))

\* the catch block of fetchPaperMetadata, src/src/server.ts:382-391
paperCatch(c) == Return(c, EmptyMd(c.in, c.source))

\* an exception travels to the innermost enclosing catch block
\*   ieeeTry  src/src/server.ts:664-666     acmTry  699-701
\*   pdf      729-732    parse  792-794    generic  860-862
RECURSIVE Unwind(_)
Unwind(c) ==
    IF Top(c) = "paper" THEN paperCatch(c)
    ELSE IF Top(c) = "ieeeTry" THEN Return(c, EmptyMd(c.in, "IEEE"))
    ELSE IF Top(c) = "acmTry" THEN Return(c, EmptyMd(c.in, "ACM"))
    ELSE IF Top(c) \in {"generic", "pdf", "parse"}
    THEN Return(c, EmptyMd(c.in, c.source))
    ELSE Unwind(Pop(c))

\* the top frame throws
Raise(c) == Unwind([c EXCEPT !.raised = TRUE])

\* a parsing step ends the top frame
Finish(c, r) == IF r.thrown THEN Raise(c) ELSE Return(c, r.md)

\* await fetch(...): the call is issued and the resolution suspends
AwaitFetch(c, ep) == [c EXCEPT !.pc = "fetch", !.ep = ep, !.nfetch = @ + 1]

\* await response.text() / json() / arrayBuffer()
AwaitRead(c, how) == [c EXCEPT !.pc = "read", !.how = how, !.nread = @ + 1]

(***************************************************************************)
(* The resolvers up to their first await.  A url that is no string has no  *)
(* match / toLowerCase method: the first use of it throws a TypeError.     *)
(***************************************************************************)
\* a variant that queries the API whether or not an ID was found
fetchArxivMetadataAlways(c) ==
    IF c.in.kind # "str" THEN Raise(Push(c, "arxiv"))
    ELSE AwaitFetch(Push(c, "arxiv"), "arxiv")

\* src/src/server.ts:394-405
fetchArxivMetadata(c) ==
    IF c.in.kind # "str" THEN Raise(Push(c, "arxiv"))
    ELSE IF ArxivIdOf(c.in.s) = NoId
         THEN Return(Push(c, "arxiv"), EmptyMd(c.in, "arXiv"))
    ELSE AwaitFetch(Push(c, "arxiv"), "arxiv")

\* src/src/server.ts:434-450, called with the url u
fetchDoiMetadata(c, u) ==
    LET c1 == [Push(c, "doi") EXCEPT !.durl = u]
    IN  IF u.kind # "str" THEN Raise(c1)
        ELSE IF DoiIdOf(u.s) = NoId THEN Return(c1, EmptyMd(u, "DOI"))
        ELSE AwaitFetch(c1, "crossref")

\* src/src/server.ts:483-494
fetchPubMedMetadata(c) ==
    IF c.in.kind # "str" THEN Raise(Push(c, "pubmed"))
    ELSE IF PmidOf(c.in.s) = NoId
         THEN Return(Push(c, "pubmed"), EmptyMd(c.in, "PubMed"))
    ELSE AwaitFetch(Push(c, "pubmed"), "pubmed")

\* src/src/server.ts:528-543
fetchSemanticScholarMetadata(c) ==
    IF c.in.kind # "str" THEN Raise(Push(c, "s2"))
    ELSE IF PaperIdOf(c.in.s) = NoId
         THEN Return(Push(c, "s2"), EmptyMd(c.in, "Semantic Scholar"))
    ELSE AwaitFetch(Push(c, "s2"), "s2")

\* src/src/server.ts:567-582
fetchOpenReviewMetadata(c) ==
    IF c.in.kind # "str" THEN Raise(Push(c, "openreview"))
    ELSE IF ForumIdOf(c.in.s) = NoId
         THEN Return(Push(c, "openreview"), EmptyMd(c.in, "OpenReview"))
    ELSE AwaitFetch(Push(c, "openreview"), "openreview")

\* src/src/server.ts:634-645 and 669
fetchIEEEMetadata(c) ==
    IF c.in.kind # "str" THEN Raise(Push(c, "ieee"))
    ELSE IF IeeeDocOf(c.in.s) = NoId
         THEN Return(Push(c, "ieee"), EmptyMd(c.in, "IEEE"))
    ELSE AwaitFetch(Push(c, "ieeeTry"), "page")

\* src/src/server.ts:673-688
fetchACMMetadata(c) ==
    IF c.in.kind # "str" THEN Raise(Push(c, "acm"))
    ELSE IF AcmDoiOf(c.in.s) # NoId
         THEN fetchDoiMetadata(Push(c, "acm"), StrVal(DoiUrl(AcmDoiOf(c.in.s))))
    ELSE AwaitFetch(Push(c, "acmTry"), "page")

\* src/src/server.ts:708-714
fetchPdfMetadata(c) == AwaitFetch(Push(c, "pdf"), "page")

\* a variant that requests a url that looks like a PDF itself before it
\* delegates to the PDF extractor
fetchGenericMetadataTwice(c) ==
    IF c.in.kind # "str" THEN Raise(Push(c, "generic"))
    ELSE IF IsPdfUrl(c.in.s)
         THEN fetchPdfMetadata(AwaitFetch(Push(c, "generic"), "page"))
    ELSE AwaitFetch(Push(c, "generic"), "page")

\* src/src/server.ts:804-817
fetchGenericMetadata(c) ==
    IF c.in.kind # "str" THEN Raise(Push(c, "generic"))
    ELSE IF IsPdfUrl(c.in.s) THEN fetchPdfMetadata(Push(c, "generic"))
    ELSE AwaitFetch(Push(c, "generic"), "page")

\* the switch of fetchPaperMetadata, src/src/server.ts:363-381
Dispatch(c) ==
    CASE c.source = "arXiv" -> fetchArxivMetadata(c)
      [] c.source = "DOI" -> fetchDoiMetadata(c, c.in)
      [] c.source = "PubMed" -> fetchPubMedMetadata(c)
      [] c.source = "Semantic Scholar" -> fetchSemanticScholarMetadata(c)
      [] c.source = "OpenReview" -> fetchOpenReviewMetadata(c)
      [] c.source = "IEEE" -> fetchIEEEMetadata(c)
      [] c.source = "ACM" -> fetchACMMetadata(c)
      [] OTHER -> fetchGenericMetadata(c)

\* src/src/server.ts:359-362: detectSource runs before the try block
fetchPaperMetadata(c, v) ==
    LET source == detectSource(v)
        c1 == [c EXCEPT !.in = v, !.source = source, !.stack = <<"paper">>]
    IN  IF source = TypeError THEN ThrowOut(c1) ELSE Dispatch(c1)

(***************************************************************************)
(* What a resolver does with the response, and with the body.              *)
(***************************************************************************)
\* the code between `await fetch(...)` and the next await or return
AfterFetch(c0, resp) ==
    LET c == [c0 EXCEPT !.resp = resp, !.failed = @ \/ ~resp.ok]
    IN  CASE Top(c) \in {"arxiv", "pubmed", "ieeeTry", "acmTry"} ->
               AwaitRead(c, "text")                    \* 406, 495, 646, 689
          [] Top(c) = "doi" ->                         \* 452-456
               IF ~resp.ok THEN Return(c, EmptyMd(c.durl, "DOI"))
               ELSE AwaitRead(c, "json")
          [] Top(c) = "s2" ->                          \* 545-549
               IF ~resp.ok THEN Return(c, EmptyMd(c.in, "Semantic Scholar"))
               ELSE AwaitRead(c, "json")
          [] Top(c) = "openreview" ->                  \* 584-593
               IF ~resp.ok THEN Return(c, EmptyMd(c.in, "OpenReview"))
               ELSE AwaitRead(c, "json")
          [] Top(c) = "generic" ->                     \* 819-826
               IF resp.ctype = "application/pdf" THEN AwaitRead(c, "bytes")
               ELSE AwaitRead(c, "text")
          [] Top(c) = "pdf" ->                         \* 716-727
               IF ~resp.ok THEN Return(c, EmptyMd(c.in, c.source))
               ELSE IF TooLarge(resp.clen) THEN Return(c, EmptyMd(c.in, c.source))
               ELSE AwaitRead(c, "bytes")

\* parsePdfBuffer up to its first await, src/src/server.ts:736-742
parsePdfBuffer(c) == [Push(c, "parse") EXCEPT !.pc = "getInfo", !.parser = "open"]

\* the code after the body read
AfterRead(c0, body) ==
    LET c == [c0 EXCEPT !.body = body,
                        !.bytes = IF body.fmt = "bytes" THEN body.n ELSE @]
    IN  CASE Top(c) = "arxiv" -> Finish(c, parseArxiv(c.in, body))
          [] Top(c) = "doi" -> Finish(c, parseCrossref(c.durl, body))
          [] Top(c) = "pubmed" -> Finish(c, parsePubMed(c.in, body))
          [] Top(c) = "s2" -> Finish(c, parseSemanticScholar(c.in, body))
          [] Top(c) = "openreview" -> Finish(c, parseOpenReview(c.in, body))
          [] Top(c) = "ieeeTry" ->                     \* 649-663
               IF PageDoi(body) # NoId
               THEN fetchDoiMetadata(c, StrVal(DoiUrl(PageDoi(body))))
               ELSE Finish(c, parseMeta(c.in, body, "IEEE"))
          [] Top(c) = "acmTry" -> Finish(c, parseMeta(c.in, body, "ACM"))
          [] Top(c) \in {"generic", "pdf"} ->
               IF c.how = "bytes" THEN parsePdfBuffer(c)    \* 727-728, 822-823
               ELSE Finish(c, parseGeneric(c.in, body, c.source))

\* parsePdfBuffer after getInfo resolved, src/src/server.ts:742-749
AfterGetInfo(c, info) == [c EXCEPT !.info = info, !.pc = "getText"]

\* parsePdfBuffer after getText resolved, src/src/server.ts:749-791
AfterGetText(c, text) ==
    Finish([c EXCEPT !.body = text], extractPdf(c.in, c.info, text, c.source))

\* destroy() of the finally block resolved: parsePdfBuffer completes with
\* what its try or catch block returned, src/src/server.ts:795-800
AfterDestroy(c) == Return([c EXCEPT !.parser = "destroyed"], c.held.md)

\* destroy() rejected: the exception replaces the held result
DestroyThrows(c) == Raise(Pop([c EXCEPT !.parser = "failed"]))

\* the responses the remote end can give to the pending call; content-type
\* is varied where the resolver reads it, content-length where the response
\* can carry a PDF (the PDF fetch, a response typed application/pdf, the
\* page fetch of a url that ends in .pdf)
Responses(c) ==
    { resp \in [ok : BOOLEAN, ctype : {"text/html", "application/pdf"},
                clen : ContentLengths] :
        /\ resp.ctype = "application/pdf" => Top(c) = "generic"
        /\ resp.clen # NoLen =>
              \/ Top(c) = "pdf"
              \/ resp.ctype = "application/pdf"
              \/ c.ep = "page" /\ EndsInPdf(c.in.s) }

\* fetch of the input url rejects when it is no absolute URL
CanRespond(c) == c.ep # "page" \/ WellFormed(c.in.s)

\* the bytes arrayBuffer() resolves with once the whole body of n bytes is
\* downloaded
PdfBytes(n) == [fmt |-> "bytes", n |-> n]

\* the actual size of the body: the declared one, either side of the cap when
\* the response declares none
ActualSizes(c) ==
    IF c.resp.clen.kind = "num" THEN { c.resp.clen.n } ELSE { 1024, MAX_PDF_SIZE + 1 }

\* the bodies the pending read can deliver
Bodies(c) ==
    CASE c.how = "bytes" -> { PdfBytes(n) : n \in ActualSizes(c) }
      [] c.ep = "arxiv" -> ArxivBodies
      [] c.ep = "crossref" -> CrossrefBodies
      [] c.ep = "pubmed" -> PubmedBodies
      [] c.ep = "s2" -> S2Bodies
      [] c.ep = "openreview" -> OpenReviewBodies
      [] c.ep = "page" /\ Top(c) = "ieeeTry" -> HtmlBodies(HtmlTags \cup DoiTags)
      [] OTHER -> HtmlBodies(HtmlTags)

(***************************************************************************)
(* The classifier on its own: detectSource of both servers applied to one  *)
(* value.                                                                  *)
(***************************************************************************)
\* the domain substrings detectSource tests, in the order of the source
Needles ==
    << "arxiv.org", "doi.org", "ieee.org", "acm.org", "springer.com", "nature.com",
       "sciencedirect.com", "ncbi.nlm.nih.gov", "pubmed", "semanticscholar.org",
       "openreview.net", "github.com", "huggingface.co" >>

UrlToks == { Needles[i] : i \in 1..Len(Needles) } \cup { "example.com", "/pdf/", "?v=1" }

ClassifyInputs ==
    { StrVal(u) : u \in SeqsUpTo(UrlToks, MaxUrlLen) }
        \cup { NumVal, NullVal, ObjVal, ArrVal(<<>>), ArrVal(<<"arxiv.org">>) }

ProbeOff == [pc |-> "off", in |-> UndefVal, ts |-> "", js |-> ""]

\* no request of the paper routes answered yet; no browser client; no
\* WebSocket server
NoReply == [route |-> "none", status |-> 0]
ClientOff == [kind |-> "none"]
WssOff == << >>

InitClassify ==
    /\ probe \in { [pc |-> "ready", in |-> v, ts |-> "", js |-> ""] : v \in ClassifyInputs }
    /\ res = [r \in Rids |-> Idle]
    /\ papers = {}
    /\ sseClients = << >>
    /\ trace = [r \in Rids |-> <<>>]
    /\ reply = NoReply
    /\ client = ClientOff
    /\ wss = WssOff

Classify ==
    /\ probe.pc = "ready"
    /\ probe' = [probe EXCEPT !.pc = "done",
                              !.ts = detectSource(probe.in),
                              !.js = detectSourceJs(probe.in)]
    /\ UNCHANGED <<res, papers, sseClients, trace, reply, client, wss>>

NextClassify == Classify

SpecClassify == InitClassify /\ [][NextClassify]_vars

(***************************************************************************)
(* escapeHtml and decodeHtmlEntities applied to a text, one after the other *)
(***************************************************************************)
\* longest text of the harness
MaxTextLen == 3

TextToks == { "&", "<", ">", "\"", "'", "a", ";", "lt;", "amp;" }

InitDecode ==
    /\ probe \in { [pc |-> "text", in |-> s, escaped |-> <<>>, decoded |-> <<>>,
                    back |-> <<>>] : s \in SeqsUpTo(TextToks, MaxTextLen) }
    /\ res = [r \in Rids |-> Idle]
    /\ papers = {}
    /\ sseClients = << >>
    /\ trace = [r \in Rids |-> <<>>]
    /\ reply = NoReply
    /\ client = ClientOff
    /\ wss = WssOff

\* the text is decoded as it is, and escaped
Escape ==
    /\ probe.pc = "text"
    /\ probe' = [probe EXCEPT !.pc = "escaped",
                              !.decoded = decodeHtmlEntities(probe.in),
                              !.escaped = escapeHtml(probe.in)]
    /\ UNCHANGED <<res, papers, sseClients, trace, reply, client, wss>>

\* the escaped text is decoded
Decode ==
    /\ probe.pc = "escaped"
    /\ probe' = [probe EXCEPT !.pc = "done",
                              !.back = decodeHtmlEntities(probe.escaped)]
    /\ UNCHANGED <<res, papers, sseClients, trace, reply, client, wss>>

NextDecode == Escape \/ Decode

SpecDecode == InitDecode /\ [][NextDecode]_vars

(***************************************************************************)
(* The server: resolutions started by a call or by the route, and the      *)
(* completions of what they await.                                         *)
(***************************************************************************)
Init ==
    /\ probe = ProbeOff
    /\ res = [r \in Rids |-> Idle]
    /\ papers = {}
    /\ sseClients = << >>
    /\ trace = [r \in Rids |-> <<>>]
    /\ reply = NoReply
    /\ client = ClientOff
    /\ wss = WssOff

\* fetchPaperMetadata(url) called with a string
Call(r) ==
    /\ res[r].pc = "idle"
    /\ \E u \in Urls :
         res' = [res EXCEPT ![r] = fetchPaperMetadata([Idle EXCEPT !.via = "call"],
                                                      StrVal(u))]
    /\ UNCHANGED <<probe, papers, sseClients, trace, reply, client, wss>>

\* POST /api/fetch-metadata, src/src/server.ts:306-321
Post(r) ==
    /\ res[r].pc = "idle"
    /\ \E v \in RouteInputs :
         res' = [res EXCEPT ![r] =
                   IF ~Truthy(v)
                   THEN [Idle EXCEPT !.via = "route", !.in = v, !.pc = "done",
                                     !.http = 400]
                   ELSE fetchPaperMetadata([Idle EXCEPT !.via = "route"], v)]
    /\ UNCHANGED <<probe, papers, sseClients, trace, reply, client, wss>>

\* a variant that issues the call again when it failed
FetchFailsRetry(r) ==
    /\ res[r].pc = "fetch"
    /\ res' = [res EXCEPT ![r] = IF res[r].nfetch < 3
                                 THEN AwaitFetch(res[r], res[r].ep)
                                 ELSE Raise(res[r])]
    /\ UNCHANGED <<probe, papers, sseClients, trace, reply, client, wss>>

\* the pending fetch rejects (network failure, timeout, invalid URL)
FetchFails(r) ==
    /\ res[r].pc = "fetch"
    /\ res' = [res EXCEPT ![r] = Raise(res[r])]
    /\ UNCHANGED <<probe, papers, sseClients, trace, reply, client, wss>>

\* the pending fetch resolves with a response
FetchResponds(r) ==
    /\ res[r].pc = "fetch"
    /\ CanRespond(res[r])
    /\ \E resp \in Responses(res[r]) :
         res' = [res EXCEPT ![r] = AfterFetch(res[r], resp)]
    /\ UNCHANGED <<probe, papers, sseClients, trace, reply, client, wss>>

\* the pending body read rejects (connection lost, body that does not parse)
ReadFails(r) ==
    /\ res[r].pc = "read"
    /\ res' = [res EXCEPT ![r] = Raise(res[r])]
    /\ UNCHANGED <<probe, papers, sseClients, trace, reply, client, wss>>

\* the pending body read delivers the body
ReadDelivers(r) ==
    /\ res[r].pc = "read"
    /\ \E body \in Bodies(res[r]) :
         res' = [res EXCEPT ![r] = AfterRead(res[r], body)]
    /\ UNCHANGED <<probe, papers, sseClients, trace, reply, client, wss>>

\* a variant in which getInfo is awaited outside the try block
GetInfoFailsLeak(r) ==
    /\ res[r].pc = "getInfo"
    /\ res' = [res EXCEPT ![r] = Raise(Pop(res[r]))]
    /\ UNCHANGED <<probe, papers, sseClients, trace, reply, client, wss>>

\* parser.getInfo() rejects / resolves, src/src/server.ts:742-746
GetInfoFails(r) ==
    /\ res[r].pc = "getInfo"
    /\ res' = [res EXCEPT ![r] = Raise(res[r])]
    /\ UNCHANGED <<probe, papers, sseClients, trace, reply, client, wss>>

GetInfoReturns(r) ==
    /\ res[r].pc = "getInfo"
    /\ \E info \in PdfInfos :
         res' = [res EXCEPT ![r] = AfterGetInfo(res[r], info)]
    /\ UNCHANGED <<probe, papers, sseClients, trace, reply, client, wss>>

\* parser.getText() rejects / resolves, src/src/server.ts:749-791
GetTextFails(r) ==
    /\ res[r].pc = "getText"
    /\ res' = [res EXCEPT ![r] = Raise(res[r])]
    /\ UNCHANGED <<probe, papers, sseClients, trace, reply, client, wss>>

GetTextReturns(r) ==
    /\ res[r].pc = "getText"
    /\ \E text \in PdfTexts :
         res' = [res EXCEPT ![r] = AfterGetText(res[r], text)]
    /\ UNCHANGED <<probe, papers, sseClients, trace, reply, client, wss>>

\* parser.destroy() of the finally block resolves: parsePdfBuffer completes
\* with what its try or catch block returned
DestroyReturns(r) ==
    /\ res[r].pc = "destroy"
    /\ res' = [res EXCEPT ![r] = AfterDestroy(res[r])]
    /\ UNCHANGED <<probe, papers, sseClients, trace, reply, client, wss>>

\* parser.destroy() rejects: the exception replaces the held result
DestroyFails(r) ==
    /\ res[r].pc = "destroy"
    /\ res' = [res EXCEPT ![r] = DestroyThrows(res[r])]
    /\ UNCHANGED <<probe, papers, sseClients, trace, reply, client, wss>>

\* the caller has its answer; the slot is free for the next request
Forget(r) ==
    /\ res[r].pc = "done"
    /\ res' = [res EXCEPT ![r] = Idle]
    /\ trace' = [trace EXCEPT ![r] = <<>>]
    /\ UNCHANGED <<probe, papers, sseClients, reply, client, wss>>

Next ==
    \E r \in Rids :
        \/ Call(r)
        \/ Post(r)
        \/ FetchFails(r)
        \/ FetchResponds(r)
        \/ ReadFails(r)
        \/ ReadDelivers(r)
        \/ GetInfoFails(r)
        \/ GetInfoReturns(r)
        \/ GetTextFails(r)
        \/ GetTextReturns(r)
        \/ DestroyReturns(r)
        \/ DestroyFails(r)
        \/ Forget(r)

Spec == Init /\ [][Next]_vars

\* what resolution r awaits returns or fails: the await fails, or r moves on
\* in some other way
Completes(r) ==
    \/ FetchFails(r)
    \/ ReadFails(r)
    \/ GetInfoFails(r)
    \/ GetTextFails(r)
    \/ DestroyFails(r)
    \/ /\ res[r].pc \in {"fetch", "read", "getInfo", "getText", "destroy"}
       /\ res'[r] # res[r]

\* the server when every outbound call, body read and parser operation
\* eventually returns or fails
SpecLive == Spec /\ \A r \in Rids : WF_vars(Completes(r))

(***************************************************************************)
(* The older server, src/server.js: fetchPaperMetadata knows one resolver.  *)
(***************************************************************************)
\* src/server.js:463-476; fetchArxivMetadata of src/server.js:478-507 reads
\* the feed as src/src/server.ts does
fetchPaperMetadataJs(c, v) ==
    LET source == detectSourceJs(v)
        c1 == [c EXCEPT !.in = v, !.source = source, !.stack = <<"paper">>]
    IN  IF source = TypeError THEN ThrowOut(c1)
        ELSE IF source = "arXiv" THEN fetchArxivMetadata(c1)
        ELSE Return(c1, EmptyMd(v, source))

\* fetchPaperMetadata(url) of src/server.js called with a string
CallJs(r) ==
    /\ res[r].pc = "idle"
    /\ \E u \in Urls :
         res' = [res EXCEPT ![r] = fetchPaperMetadataJs([Idle EXCEPT !.via = "call"],
                                                        StrVal(u))]
    /\ UNCHANGED <<probe, papers, sseClients, trace, reply, client, wss>>

NextJs ==
    \E r \in Rids :
        \/ CallJs(r)
        \/ FetchFails(r)
        \/ FetchResponds(r)
        \/ ReadFails(r)
        \/ ReadDelivers(r)
        \/ Forget(r)

SpecJs == Init /\ [][NextJs]_vars

(***************************************************************************)
(* Concurrent requests: two resolutions interleaved at their awaits with   *)
(* each other and with the routes that change `papers` and `sseClients`.   *)
(***************************************************************************)
Pair == {"r1", "r2"}

\* the urls of the concurrent requests: one without a provider ID, a page,
\* a DOI
PairUrls ==
    { <<"https://", "arxiv.org", "/list/">>,
      <<"https://", "example.com", "/page">>,
      <<"https://", "doi.org", "/", "10.1145/3290605">> }

\* a completion of the pending await: it fails, or it delivers v
Event(kind, v) == [kind |-> kind, v |-> v]
Failure == Event("fail", NoBody)

PairResponses(c) ==
    { resp \in Responses(c) : resp.clen = NoLen /\ (resp.ok \/ Top(c) = "doi") }

PairBodies(c) ==
    CASE c.how = "bytes" -> { PdfBytes(1024) }
      [] c.ep = "crossref" ->
           { CrossrefDoc("null", [present |-> FALSE, items |-> <<>>],
                         [kind |-> "undef", items |-> <<>>], UndefVal),
             CrossrefDoc("msg", [present |-> TRUE, items |-> <<StrVal(<<"Deep", " ", "Nets">>)>>],
                         [kind |-> "arr", items |-> <<Person(Given, Family)>>], UndefVal) }
      [] OTHER -> HtmlBodies({ Tag("title", "", <<"Q", "&amp;", "A">>) })

PairInfos ==
    { NoInfo, [Title |-> StrVal(<<"Deep", " ", "Nets", " ">>), Author |-> UndefVal] }

PairTexts == { [fmt |-> "pdftext", lines |-> <<TitleLine>>, abs |-> Section(FALSE, 0, <<>>)] }

\* the completions the await resolution c is suspended at can receive
Events(c) ==
    CASE c.pc = "fetch" ->
           { Failure } \cup (IF CanRespond(c)
                             THEN { Event("resp", resp) : resp \in PairResponses(c) }
                             ELSE {})
      [] c.pc = "read" -> { Failure } \cup { Event("body", b) : b \in PairBodies(c) }
      [] c.pc = "getInfo" -> { Failure } \cup { Event("info", i) : i \in PairInfos }
      [] c.pc = "getText" -> { Failure } \cup { Event("text", t) : t \in PairTexts }
      [] c.pc = "destroy" -> { Failure, Event("destroyed", NoBody) }
      [] OTHER -> {}

\* the code that runs when the await of c completes with e, up to the next
\* await or the return
Apply(c, e) ==
    CASE e.kind = "fail" -> IF c.pc = "destroy" THEN DestroyThrows(c) ELSE Raise(c)
      [] e.kind = "resp" -> AfterFetch(c, e.v)
      [] e.kind = "body" -> AfterRead(c, e.v)
      [] e.kind = "info" -> AfterGetInfo(c, e.v)
      [] e.kind = "text" -> AfterGetText(c, e.v)
      [] e.kind = "destroyed" -> AfterDestroy(c)

\* most stored papers of the model, and most counted accesses of one paper
MaxPapers == 2
MaxAccess == 2

PaperIds == {"id1", "id2"}
StoreUrls == { <<"https://", "arxiv.org", "/list/">>, <<"https://", "example.com", "/page">> }
Clients == {"c1"}

DefaultTitle == StrVal(<<"Untitled Paper">>)

\* the document POST /api/papers inserts for the body { url }, src/src/server.ts:178-189
\* (lastAccessed changes together with accessCount and is not kept apart)
Paper(id, u) ==
    [_id |-> id, url |-> StrVal(u), source |-> detectSource(StrVal(u)),
     title |-> DefaultTitle, accessCount |-> 0]

\* the answer of a paper route: res.status(...).json(...)
Answer(route, status) == [route |-> route, status |-> status]

\* one write to the response of an event-stream client: the event written
\* last, and the number of writes so far modulo 2
Written(event, before) == [last |-> event, n |-> 1 - before]

\* broadcast(event, data), src/src/server.ts:30-35: one write to each client
broadcast(event) == [cl \in DOMAIN sseClients |-> Written(event, sseClients[cl].n)]

\* the unique index on url (src/src/server.ts:56) agrees with the documents.
\* What the routes do once it does not is decided inside LokiJS; the model
\* does not follow the store beyond such a state.
UniqueUrls == \A p, q \in papers : p.url = q.url => p = q

findOne(id) == CHOOSE p \in papers : p._id = id

InitConcurrent ==
    /\ probe = ProbeOff
    /\ res = [r \in Pair |-> Idle]
    /\ papers = {}
    /\ sseClients = << >>
    /\ trace = [r \in Pair |-> <<>>]
    /\ reply = NoReply
    /\ client = ClientOff
    /\ wss = WssOff

\* a variant that answers a url of the store from the stored record
RequestFromStore(r) ==
    /\ res[r].pc = "idle"
    /\ \E u \in PairUrls :
         LET c == [Idle EXCEPT !.via = "route", !.in = StrVal(u),
                               !.source = detectSource(StrVal(u)), !.stack = <<"paper">>]
         IN  res' = [res EXCEPT ![r] =
                       IF \E p \in papers : p.url = StrVal(u)
                       THEN Return(c, Md(StrVal(u), StrVal(<<"Untitled Paper">>), EmptyStr,
                                         EmptyStr, c.source))
                       ELSE fetchPaperMetadata([Idle EXCEPT !.via = "route"], StrVal(u))]
    /\ trace' = [trace EXCEPT ![r] = <<>>]
    /\ UNCHANGED <<probe, papers, sseClients, reply, client, wss>>

\* a variant that joins a request to a resolution of the same url in flight
RequestShared(r) ==
    /\ res[r].pc = "idle"
    /\ \E u \in PairUrls :
         res' = [res EXCEPT ![r] =
                   IF \E q \in Pair : res[q].pc # "idle" /\ res[q].in = StrVal(u)
                   THEN res[CHOOSE q \in Pair : res[q].pc # "idle" /\ res[q].in = StrVal(u)]
                   ELSE fetchPaperMetadata([Idle EXCEPT !.via = "route"], StrVal(u))]
    /\ trace' = [trace EXCEPT ![r] = <<>>]
    /\ UNCHANGED <<probe, papers, sseClients, reply, client, wss>>

\* POST /api/fetch-metadata with a url, src/src/server.ts:306-315
Request(r) ==
    /\ res[r].pc = "idle"
    /\ \E u \in PairUrls :
         res' = [res EXCEPT ![r] =
                   fetchPaperMetadata([Idle EXCEPT !.via = "route"], StrVal(u))]
    /\ trace' = [trace EXCEPT ![r] = <<>>]
    /\ UNCHANGED <<probe, papers, sseClients, reply, client, wss>>

\* the await of resolution r completes and r runs to its next await
Complete(r) ==
    /\ \E e \in Events(res[r]) :
         /\ res' = [res EXCEPT ![r] = Apply(res[r], e)]
         /\ trace' = [trace EXCEPT ![r] = Append(@, e)]
    /\ UNCHANGED <<probe, papers, sseClients, reply, client, wss>>

\* GET /api/events, src/src/server.ts:78-94
Connect(cl) ==
    /\ cl \notin DOMAIN sseClients
    /\ sseClients' = [x \in DOMAIN sseClients \cup {cl} |->
                        IF x = cl THEN Written("connected", 1) ELSE sseClients[x]]
    /\ UNCHANGED <<probe, res, papers, trace, reply, client, wss>>

\* the 'close' handler, src/src/server.ts:96-100
Disconnect(cl) ==
    /\ cl \in DOMAIN sseClients
    /\ sseClients' = [x \in DOMAIN sseClients \ {cl} |-> sseClients[x]]
    /\ UNCHANGED <<probe, res, papers, trace, reply, client, wss>>

\* the bodies of POST /api/papers: no url, a url that is no string, a url
CreateInputs == { UndefVal, NumVal } \cup { StrVal(u) : u \in StoreUrls }

\* a variant that announces the paper found to the clients when it answers 409
CreatePaperAnnounce(v, id) ==
    /\ UniqueUrls
    /\ IF ~Truthy(v)
       THEN reply' = Answer("create", 400) /\ UNCHANGED <<papers, sseClients>>
       ELSE IF \E p \in papers : p.url = v
       THEN /\ reply' = Answer("create", 409)
            /\ sseClients' = broadcast("paper:created")
            /\ UNCHANGED papers
       ELSE IF detectSource(v) = TypeError
       THEN reply' = Answer("create", 500) /\ UNCHANGED <<papers, sseClients>>
       ELSE /\ Cardinality(papers) < MaxPapers
            /\ ~\E p \in papers : p._id = id
            /\ papers' = papers \cup { Paper(id, v.s) }
            /\ sseClients' = broadcast("paper:created")
            /\ reply' = Answer("create", 201)
    /\ UNCHANGED <<probe, res, trace, client, wss>>

\* POST /api/papers with the body { url: v }, src/src/server.ts:162-206; id
\* is what generateId returns
CreatePaper(v, id) ==
    /\ UniqueUrls
    /\ IF ~Truthy(v)                                              \* 166-169
       THEN reply' = Answer("create", 400) /\ UNCHANGED <<papers, sseClients>>
       ELSE IF \E p \in papers : p.url = v                         \* 172-176
       THEN reply' = Answer("create", 409) /\ UNCHANGED <<papers, sseClients>>
       ELSE IF detectSource(v) = TypeError                      \* 184, 202-205
       THEN reply' = Answer("create", 500) /\ UNCHANGED <<papers, sseClients>>
       ELSE /\ Cardinality(papers) < MaxPapers
            /\ ~\E p \in papers : p._id = id
            /\ papers' = papers \cup { Paper(id, v.s) }           \* 191
            /\ sseClients' = broadcast("paper:created")          \* 199
            /\ reply' = Answer("create", 201)                    \* 201
    /\ UNCHANGED <<probe, res, trace, client, wss>>

\* DELETE /api/papers/:id, src/src/server.ts:244-263
DeletePaper(id) ==
    /\ UniqueUrls
    /\ IF ~\E p \in papers : p._id = id
       THEN reply' = Answer("delete", 404) /\ UNCHANGED <<papers, sseClients>>
       ELSE /\ papers' = papers \ { findOne(id) }
            /\ sseClients' = broadcast("paper:deleted")
            /\ reply' = Answer("delete", 200)
    /\ UNCHANGED <<probe, res, trace, client, wss>>

NextConcurrent ==
    \/ \E r \in Pair : Request(r) \/ Complete(r) \/ Forget(r)
    \/ \E cl \in Clients : Connect(cl) \/ Disconnect(cl)
    \/ \E v \in CreateInputs, id \in PaperIds : CreatePaper(v, id)
    \/ \E id \in PaperIds : DeletePaper(id)

SpecConcurrent == InitConcurrent /\ [][NextConcurrent]_vars

(***************************************************************************)
(* The record store: every paper route and the event stream.  The handlers  *)
(* are synchronous, so the requests of all clients are served one after the *)
(* other.                                                                   *)
(***************************************************************************)
\* the bodies of PUT /api/papers/:id: with or without title, with or without url
UpdateTitles == { UndefVal, StrVal(<<"Deep", " ", "Nets">>) }
UpdateUrls == { UndefVal } \cup { StrVal(u) : u \in StoreUrls }

\* PUT /api/papers/:id with the body { title: t, url: v }, src/src/server.ts:209-241.
\* findOne returns the stored document and 221-228 assign to it; update (230)
\* throws when the unique index holds the url for another document.
UpdatePaper(id, t, v) ==
    /\ UniqueUrls
    /\ IF ~\E p \in papers : p._id = id
       THEN reply' = Answer("update", 404) /\ UNCHANGED <<papers, sseClients>>
       ELSE LET paper == findOne(id)
                assigned == [paper EXCEPT
                               !.title = IF Truthy(t) THEN t ELSE @,
                               !.url = IF Truthy(v) THEN v ELSE @,
                               !.source = IF Truthy(v) THEN detectSource(v) ELSE @]
            IN  /\ papers' = (papers \ {paper}) \cup {assigned}
                /\ IF \E o \in papers \ {paper} : o.url = assigned.url
                   THEN reply' = Answer("update", 500) /\ UNCHANGED sseClients
                   ELSE /\ sseClients' = broadcast("paper:updated")
                        /\ reply' = Answer("update", 200)
    /\ UNCHANGED <<probe, res, trace, client, wss>>

\* POST /api/papers/:id/access, src/src/server.ts:266-284
AccessPaper(id) ==
    /\ UniqueUrls
    /\ IF ~\E p \in papers : p._id = id
       THEN reply' = Answer("access", 404) /\ UNCHANGED <<papers, sseClients>>
       ELSE LET paper == findOne(id)
            IN  /\ paper.accessCount < MaxAccess
                /\ papers' = (papers \ {paper})
                                \cup { [paper EXCEPT !.accessCount = @ + 1] }
                /\ reply' = Answer("access", 200)
                /\ UNCHANGED sseClients
    /\ UNCHANGED <<probe, res, trace, client, wss>>

NextStore ==
    \/ \E cl \in Clients : Connect(cl) \/ Disconnect(cl)
    \/ \E v \in CreateInputs, id \in PaperIds : CreatePaper(v, id)
    \/ \E id \in PaperIds, t \in UpdateTitles, v \in UpdateUrls : UpdatePaper(id, t, v)
    \/ \E id \in PaperIds : DeletePaper(id)
    \/ \E id \in PaperIds : AccessPaper(id)

SpecStore == Init /\ [][NextStore]_vars

(***************************************************************************)
(* The browser client (src/unnamed/part_002): real-time sync over a         *)
(* WebSocket (lines 1-512) or over an EventSource (lines 513-1059).         *)
(*   kind      "ws" or "sse"                                                *)
(*   hasES     window.EventSource is there                                  *)
(*   pc        "page" before DOMContentLoaded, "run" after                  *)
(*   enabled   wsEnabled / sseEnabled                                       *)
(*   attempts  wsReconnectAttempts / sseReconnectAttempts                   *)
(*   sock      the socket or event source held: "none", "connecting",       *)
(*             "open", "closed"                                             *)
(*   timers    the pending setTimeout calls: the delay asked for and the    *)
(*             time left, in ms                                             *)
(*   shown     what showConnectionStatus displayed last                     *)
(***************************************************************************)
WS_MAX_RECONNECT_ATTEMPTS == 5
WS_RECONNECT_DELAY == 3000
SSE_MAX_RECONNECT_ATTEMPTS == 5
SSE_RECONNECT_DELAY == 3000

Min(a, b) == IF a < b THEN a ELSE b

Timer(delay) == [delay |-> delay, left |-> delay]

ClientLoaded(kind, hasES) ==
    [kind |-> kind, hasES |-> hasES, pc |-> "page", enabled |-> TRUE, attempts |-> 0,
     sock |-> "none", timers |-> <<>>, shown |-> "none"]

\* the catch block of initWebSocket / initSSE, lines 71-75 and 602-606
InitThrew(c) == [c EXCEPT !.enabled = FALSE, !.shown = "disabled"]

\* initWebSocket, src/unnamed/part_002:37-76: the outcomes of the call, the
\* constructor returning or throwing
initWebSocket(c) ==
    IF ~c.enabled THEN {c}
    ELSE { [c EXCEPT !.sock = "connecting"], InitThrew(c) }

\* initSSE, src/unnamed/part_002:563-607
initSSE(c) ==
    IF ~c.enabled \/ ~c.hasES THEN { [c EXCEPT !.shown = "disabled"] }
    ELSE { [c EXCEPT !.sock = "connecting"], InitThrew(c) }

\* attemptReconnect of the WebSocket client, src/unnamed/part_002:78-91
attemptReconnectWs(c) ==
    IF ~c.enabled THEN c
    ELSE IF c.attempts < WS_MAX_RECONNECT_ATTEMPTS
    THEN [c EXCEPT !.attempts = @ + 1,
                   !.timers = Append(@, Timer(WS_RECONNECT_DELAY * Min(c.attempts + 1, 3)))]
    ELSE [c EXCEPT !.enabled = FALSE, !.shown = "disabled"]

\* a variant that compares with <=
attemptReconnectInclusive(c) ==
    IF ~c.enabled THEN c
    ELSE IF c.attempts <= SSE_MAX_RECONNECT_ATTEMPTS
    THEN [c EXCEPT !.attempts = @ + 1,
                   !.timers = Append(@, Timer(SSE_RECONNECT_DELAY * Min(c.attempts + 1, 3)))]
    ELSE [c EXCEPT !.enabled = FALSE, !.shown = "disabled"]

\* attemptReconnect of the EventSource client, src/unnamed/part_002:609-622
attemptReconnect(c) ==
    IF ~c.enabled THEN c
    ELSE IF c.attempts < SSE_MAX_RECONNECT_ATTEMPTS
    THEN [c EXCEPT !.attempts = @ + 1,
                   !.timers = Append(@, Timer(SSE_RECONNECT_DELAY * Min(c.attempts + 1, 3)))]
    ELSE [c EXCEPT !.enabled = FALSE, !.shown = "disabled"]

InitClient ==
    /\ probe = ProbeOff
    /\ res = [r \in Rids |-> Idle]
    /\ papers = {}
    /\ sseClients = << >>
    /\ trace = [r \in Rids |-> <<>>]
    /\ reply = NoReply
    /\ client \in { ClientLoaded("ws", TRUE), ClientLoaded("sse", TRUE),
                     ClientLoaded("sse", FALSE) }
    /\ wss = WssOff

\* what the client calls to connect
Connecting(c) == IF c.kind = "ws" THEN initWebSocket(c) ELSE initSSE(c)

\* DOMContentLoaded, src/unnamed/part_002:30-34 and 555-561
Load ==
    /\ client.pc = "page"
    /\ client' \in Connecting([client EXCEPT !.pc = "run"])
    /\ UNCHANGED <<probe, res, papers, sseClients, trace, reply, wss>>

\* onopen, src/unnamed/part_002:46-50 and 572-576
Opens ==
    /\ client.pc = "run"
    /\ client.sock = "connecting"
    /\ client' = [client EXCEPT !.sock = "open", !.attempts = 0, !.shown = "connected"]
    /\ UNCHANGED <<probe, res, papers, sseClients, trace, reply, wss>>

\* the connection is lost or was refused: onclose of the WebSocket (61-65),
\* onerror of an EventSource that is CLOSED (594-601)
Drops ==
    /\ client.pc = "run"
    /\ client.sock \in {"connecting", "open"}
    /\ client' = LET c == [client EXCEPT !.sock = "closed", !.shown = "disconnected"]
                 IN  IF c.kind = "ws" THEN attemptReconnectWs(c) ELSE attemptReconnect(c)
    /\ UNCHANGED <<probe, res, papers, sseClients, trace, reply, wss>>

\* onerror of an EventSource that connects again by itself (594-601)
Stalls ==
    /\ client.pc = "run"
    /\ client.kind = "sse"
    /\ client.sock \in {"connecting", "open"}
    /\ client' = [client EXCEPT !.sock = "connecting", !.shown = "disconnected"]
    /\ UNCHANGED <<probe, res, papers, sseClients, trace, reply, wss>>

\* a second passes
Tick ==
    /\ client.pc = "run"
    /\ client.timers # <<>>
    /\ \A i \in 1..Len(client.timers) : client.timers[i].left > 0
    /\ client' = [client EXCEPT !.timers =
                     [i \in 1..Len(client.timers) |->
                        [client.timers[i] EXCEPT !.left = @ - 1000]]]
    /\ UNCHANGED <<probe, res, papers, sseClients, trace, reply, wss>>

\* a timer is due: setTimeout(initWebSocket, delay) / setTimeout(initSSE, delay)
TimerFires ==
    /\ client.pc = "run"
    /\ client.timers # <<>>
    /\ Head(client.timers).left = 0
    /\ client' \in Connecting([client EXCEPT !.timers = Tail(@)])
    /\ UNCHANGED <<probe, res, papers, sseClients, trace, reply, wss>>

NextClient == Load \/ Opens \/ Drops \/ Stalls \/ Tick \/ TimerFires

SpecClient == InitClient /\ [][NextClient]_vars

(***************************************************************************)
(* The WebSocket server of src/server.js and its heartbeat.  For a socket:  *)
(*   conn       "none" (not in wss.clients), "open" (readyState OPEN),      *)
(*              "closing" (in wss.clients, readyState no longer OPEN)       *)
(*   inClients  the socket is in the set `clients`                          *)
(*   isAlive    ws.isAlive                                                  *)
(*   pinged     a ping was sent to it and no pong has come back             *)
(*   answers    the client at the other end answers pings                   *)
(*   ticks      heartbeat ticks the open socket has seen since its client   *)
(*              stopped answering                                           *)
(*   msgs       messages sent to it, modulo 2                               *)
(*   terminated ws.terminate() was called on it                             *)
(***************************************************************************)
Sockets == {"s1", "s2"}

SocketOff ==
    [conn |-> "none", inClients |-> FALSE, isAlive |-> FALSE, pinged |-> FALSE,
     answers |-> FALSE, ticks |-> 0, msgs |-> 0, terminated |-> FALSE]

InitHeartbeat ==
    /\ probe = ProbeOff
    /\ res = [r \in Rids |-> Idle]
    /\ papers = {}
    /\ sseClients = << >>
    /\ trace = [r \in Rids |-> <<>>]
    /\ reply = NoReply
    /\ client = ClientOff
    /\ wss = [s \in Sockets |-> SocketOff]

\* wss.on('connection'), src/server.js:101-119
WsConnect(s) ==
    /\ wss[s].conn = "none"
    /\ wss' = [wss EXCEPT ![s] =
                 [conn |-> "open", inClients |-> TRUE, isAlive |-> TRUE, pinged |-> FALSE,
                  answers |-> TRUE, ticks |-> 0, msgs |-> 1 - wss[s].msgs,
                  terminated |-> FALSE]]
    /\ UNCHANGED <<probe, res, papers, sseClients, trace, reply, client>>

\* the client at the other end stops answering pings
Mute(s) ==
    /\ wss[s].conn = "open"
    /\ wss[s].answers
    /\ wss' = [wss EXCEPT ![s].answers = FALSE, ![s].ticks = 0]
    /\ UNCHANGED <<probe, res, papers, sseClients, trace, reply, client>>

\* a variant whose pong handler leaves isAlive as it is
PongIgnored(s) ==
    /\ wss[s].conn = "open"
    /\ wss[s].pinged
    /\ wss[s].answers
    /\ wss' = [wss EXCEPT ![s].pinged = FALSE]
    /\ UNCHANGED <<probe, res, papers, sseClients, trace, reply, client>>

\* the pong of the client arrives: ws.on('pong'), src/server.js:118
Pong(s) ==
    /\ wss[s].conn = "open"
    /\ wss[s].pinged
    /\ wss[s].answers
    /\ wss' = [wss EXCEPT ![s].isAlive = TRUE, ![s].pinged = FALSE]
    /\ UNCHANGED <<probe, res, papers, sseClients, trace, reply, client>>

\* one run of the pingInterval callback over wss.clients, src/server.js:121-131
HeartbeatTick ==
    /\ \E s \in Sockets : wss[s].conn # "none"
    /\ wss' = [s \in Sockets |->
                 LET w == wss[s]
                     seen == [w EXCEPT !.ticks = IF w.conn = "open" /\ ~w.answers
                                                 THEN @ + 1 ELSE @]
                 IN  IF w.conn = "none" THEN w
                     ELSE IF w.isAlive = FALSE
                     THEN [seen EXCEPT !.inClients = FALSE, !.conn = "closing",
                                       !.terminated = TRUE]
                     ELSE [seen EXCEPT !.isAlive = FALSE, !.pinged = (w.conn = "open")]]
    /\ UNCHANGED <<probe, res, papers, sseClients, trace, reply, client>>

\* the closing handshake of a socket starts: readyState CLOSING
CloseStarts(s) ==
    /\ wss[s].conn = "open"
    /\ wss' = [wss EXCEPT ![s].conn = "closing", ![s].pinged = FALSE]
    /\ UNCHANGED <<probe, res, papers, sseClients, trace, reply, client>>

\* ws.on('error'), src/server.js:112-115; the socket closes after it
ErrorEvent(s) ==
    /\ wss[s].conn # "none"
    /\ wss[s].inClients
    /\ wss' = [wss EXCEPT ![s].inClients = FALSE, ![s].conn = "closing",
                          ![s].pinged = FALSE]
    /\ UNCHANGED <<probe, res, papers, sseClients, trace, reply, client>>

\* ws.on('close'), src/server.js:107-110: the socket has left wss.clients
CloseEvent(s) ==
    /\ wss[s].conn # "none"
    /\ wss' = [wss EXCEPT ![s] = [SocketOff EXCEPT !.msgs = wss[s].msgs]]
    /\ UNCHANGED <<probe, res, papers, sseClients, trace, reply, client>>

\* broadcast(event, data), src/server.js:135-142
WsBroadcast ==
    /\ wss' = [s \in Sockets |->
                 IF wss[s].inClients /\ wss[s].conn = "open"
                 THEN [wss[s] EXCEPT !.msgs = 1 - @] ELSE wss[s]]
    /\ UNCHANGED <<probe, res, papers, sseClients, trace, reply, client>>

NextHeartbeat ==
    \/ \E s \in Sockets :
          \/ WsConnect(s)
          \/ Mute(s)
          \/ Pong(s)
          \/ CloseStarts(s)
          \/ ErrorEvent(s)
          \/ CloseEvent(s)
    \/ HeartbeatTick
    \/ WsBroadcast

SpecHeartbeat == InitHeartbeat /\ [][NextHeartbeat]_vars

(***************************************************************************)
(* Properties.                                                             *)
(***************************************************************************)
Labels ==
    { "arXiv", "DOI", "IEEE", "ACM", "Springer", "Nature", "ScienceDirect", "PubMed",
      "Semantic Scholar", "OpenReview", "GitHub", "HuggingFace", "Web" }

\* fetchPaperMetadata was entered and has answered its caller
Answered(r) == res[r].pc = "done" /\ res[r].out.kind # "none"

AllEmpty(md) ==
    md.title = EmptyStr /\ md.authors = EmptyStr /\ md.abstract = EmptyStr

\* C1: resolve is total on strings: every resolution of a string url, whatever
\* the outbound calls did, ends with a PaperMetadata value whose five fields
\* are present and none is null or undefined; it never raises to its caller.
C1_TotalOnStrings ==
    \A r \in Rids :
        (Answered(r) /\ res[r].in.kind = "str") =>
            /\ res[r].out.kind = "value"
            /\ ~Nullish(res[r].out.md.url)
            /\ ~Nullish(res[r].out.md.title)
            /\ ~Nullish(res[r].out.md.authors)
            /\ ~Nullish(res[r].out.md.abstract)
            /\ res[r].out.md.source \in Labels

\* the empty string was resolved: its page fetch was issued and rejected
C1_Witness ==
    \E r \in Rids :
        /\ Answered(r)
        /\ res[r].in = StrVal(<<>>)
        /\ res[r].nfetch = 1
        /\ res[r].raised
        /\ res[r].out.kind = "value"

\* C2: failure boundary: whenever the selected resolver raised at some step
\* (an outbound call, a body read, a parsing step, also inside the DOI
\* resolver or the PDF extractor it delegated to), resolve returns exactly
\* {url, title: "", authors: "", abstract: "", source: classify(url)}.
C2_FailureBoundary ==
    \A r \in Rids :
        (Answered(r) /\ res[r].raised /\ detectSource(res[r].in) # TypeError) =>
            /\ res[r].out.kind = "value"
            /\ res[r].out.md = EmptyMd(res[r].in, detectSource(res[r].in))

\* the CrossRef call an ACM resolution delegated to the DOI resolver failed
C2_Witness ==
    \E r \in Rids :
        /\ Answered(r)
        /\ res[r].raised
        /\ res[r].source = "ACM"
        /\ res[r].ep = "crossref"
        /\ res[r].out.md = EmptyMd(res[r].in, "ACM")

\* C3: source-label invariant: on every path the source of the returned
\* value is the label the classifier gave the url.
C3_SourceLabel ==
    \A r \in Rids :
        (Answered(r) /\ res[r].out.kind = "value") =>
            res[r].out.md.source = detectSource(res[r].in)

\* an ACM url was resolved through the DOI resolver, which found a title
C3_Witness ==
    \E r \in Rids :
        /\ Answered(r)
        /\ res[r].source = "ACM"
        /\ res[r].body.fmt = "crossref"
        /\ ~res[r].raised
        /\ res[r].out.md.title # EmptyStr
        /\ res[r].out.md.source = "ACM"

\* the labels of Needles[1..12], the substrings ahead of huggingface.co
PriorityLabels ==
    << "arXiv", "DOI", "IEEE", "ACM", "Springer", "Nature", "ScienceDirect", "PubMed",
       "PubMed", "Semantic Scholar", "OpenReview", "GitHub" >>

\* the positions in Needles of the substrings the string u contains
Found(u) == { i \in 1..Len(Needles) : Includes(u, <<Needles[i]>>) }
FirstFound(u) == CHOOSE i \in Found(u) : \A j \in Found(u) : i <= j

\* C4: classify is first-match-wins in the order arxiv.org, doi.org, ieee.org,
\* acm.org, springer.com, nature.com, sciencedirect.com, ncbi.nlm.nih.gov or
\* pubmed, semanticscholar.org, openreview.net, github.com; a url with none of
\* the known substrings is "Web"; a url with arxiv.org is always "arXiv".
C4_FirstMatchWins ==
    (probe.pc = "done" /\ probe.in.kind = "str") =>
        LET u == probe.in.s
        IN  /\ (Found(u) = {}) => (probe.ts = "Web" /\ probe.js = "Web")
            /\ (Found(u) # {} /\ FirstFound(u) <= Len(PriorityLabels)) =>
                  /\ probe.ts = PriorityLabels[FirstFound(u)]
                  /\ probe.js = PriorityLabels[FirstFound(u)]
            /\ Includes(u, <<"arxiv.org">>) => (probe.ts = "arXiv" /\ probe.js = "arXiv")

\* a url with doi.org ahead of arxiv.org in the text, and a /pdf/ path
C4_Witness ==
    /\ probe.pc = "done"
    /\ probe.in = StrVal(<<"doi.org", "arxiv.org", "/pdf/">>)
    /\ probe.ts = "arXiv"

\* C5: a url with huggingface.co and no higher-priority substring is
\* classified "HuggingFace", and resolve reports that source for it.
C5_HuggingFace ==
    \A r \in Rids :
        ( /\ Answered(r)
          /\ res[r].in.kind = "str"
          /\ Found(res[r].in.s) = { Len(Needles) } ) =>
            /\ res[r].source = "HuggingFace"
            /\ res[r].out.kind = "value"
            /\ res[r].out.md.source = "HuggingFace"

\* C6: classify never throws: a non-string value and the empty string are
\* "Web", so a resolve call on such input does not raise out of the
\* classification step.
C6_ClassifyNeverThrows ==
    \A r \in Rids :
        (Answered(r) /\ (res[r].in.kind # "str" \/ res[r].in.s = <<>>)) =>
            /\ res[r].source = "Web"
            /\ res[r].out.kind = "value"

\* the provider ID of a string url under the pattern of its label's resolver
IdOf(source, u) ==
    CASE source = "arXiv" -> ArxivIdOf(u)
      [] source = "DOI" -> DoiIdOf(u)
      [] source = "PubMed" -> PmidOf(u)
      [] source = "Semantic Scholar" -> PaperIdOf(u)
      [] source = "OpenReview" -> ForumIdOf(u)

IdResolvers == { "arXiv", "DOI", "PubMed", "Semantic Scholar", "OpenReview" }

\* the url of resolution r went to one of the five ID resolvers and its ID
\* pattern does not match
NoIdCase(r) ==
    /\ res[r].pc # "idle"
    /\ res[r].in.kind = "str"
    /\ res[r].source \in IdResolvers
    /\ IdOf(res[r].source, res[r].in.s) = NoId

\* C7: ID-extraction failure: when the ID pattern of the arXiv, DOI, PubMed,
\* Semantic Scholar or OpenReview resolver does not match the url, the
\* resolver returns the all-empty result with its label and no outbound
\* call is issued at any point of the resolution.
C7_NoIdNoCall ==
    \A r \in Rids :
        NoIdCase(r) =>
            /\ res[r].nfetch = 0
            /\ res[r].pc = "done"
            /\ res[r].out.kind = "value"
            /\ res[r].out.md = EmptyMd(res[r].in, res[r].source)

\* an arXiv url without /abs/ or /pdf/ and an ID has been answered
C7_Witness ==
    \E r \in Rids :
        /\ NoIdCase(r)
        /\ res[r].source = "arXiv"
        /\ Answered(r)

\* C8: non-success status: a response with a non-success HTTP status to any
\* outbound call of any resolver yields the all-empty result, whatever the
\* body holds.
C8_NonSuccessIsEmpty ==
    \A r \in Rids :
        (Answered(r) /\ res[r].failed /\ res[r].out.kind = "value") =>
            AllEmpty(res[r].out.md)

\* message.title[0] of a CrossRef document, "" when absent
TitleOfWork(body) ==
    IF body.title.present /\ body.title.items # <<>> THEN body.title.items[1]
    ELSE EmptyStr

\* C9: absent top-level object: a successful CrossRef response without
\* message gives title, authors and abstract empty under the url's label
\* ("DOI" for a DOI url); a successful OpenReview response without notes[0]
\* gives every field empty with source "OpenReview"; a message without
\* author leaves only authors empty and does not raise.
C9_AbsentObject ==
    \A r \in Rids :
        /\ (Answered(r) /\ res[r].body.fmt = "crossref" /\ res[r].body.top = "nomsg") =>
              /\ ~res[r].raised
              /\ AllEmpty(res[r].out.md)
              /\ res[r].out.md.source = res[r].source
              /\ res[r].source = "DOI" => res[r].out.md = EmptyMd(res[r].in, "DOI")
        /\ ( /\ Answered(r)
             /\ res[r].body.fmt = "openreview"
             /\ res[r].body.top \in {"nonotes", "emptynotes"} ) =>
              /\ ~res[r].raised
              /\ res[r].out.md = EmptyMd(res[r].in, "OpenReview")
        /\ ( /\ Answered(r)
             /\ res[r].body.fmt = "crossref"
             /\ res[r].body.top = "msg"
             /\ res[r].body.author.kind = "undef"
             /\ res[r].body.abstract.kind = "str" ) =>
              /\ ~res[r].raised
              /\ res[r].out.md.authors = EmptyStr
              /\ res[r].out.md.title = TitleOfWork(res[r].body)
              /\ res[r].out.md.abstract = StrVal(<<"We", " ", "show.">>)

\* a DOI url was answered from a CrossRef document without message
C9_Witness ==
    \E r \in Rids :
        /\ Answered(r)
        /\ res[r].source = "DOI"
        /\ res[r].body.fmt = "crossref"
        /\ res[r].body.top = "nomsg"
        /\ res[r].resp.ok

\* the feed of the example: one <title>, two <name>, one <summary>
ExampleFeed ==
    [fmt |-> "atom",
     els |-> << XmlEl("title", <<"Example", " ", "Paper", " ", "Title">>),
                XmlEl("name", <<"Jane", " ", "Doe">>),
                XmlEl("name", <<"John", " ", "Roe">>),
                XmlEl("summary", <<"This", " ", "is", " ", "the", " ", "abstract.">>) >>]

\* the same entry behind a padded feed-level <title>
EntryFeed ==
    [fmt |-> "atom",
     els |-> <<XmlEl("title", <<" ", "Deep", "\n", " ", "Nets", " ">>)>> \o ExampleFeed.els]

ExampleTitle == StrVal(<<"Example", " ", "Paper", " ", "Title">>)
ExampleAuthors == StrVal(<<"Jane", " ", "Doe", ",", " ", "John", " ", "Roe">>)
ExampleAbstract == StrVal(<<"This", " ", "is", " ", "the", " ", "abstract.">>)

\* an arXiv resolution that was answered from the feed it read
FromFeed(r) ==
    Answered(r) /\ res[r].source = "arXiv" /\ res[r].body.fmt = "atom" /\ ~res[r].raised

\* the whitespace-collapsed, trimmed text of the n-th <title> of a feed,
\* "" when the feed has fewer
NthTitle(body, n) ==
    LET titles == SelectSeq(body.els, LAMBDA e : e.tag = "title")
    IN  StrVal(IF Len(titles) >= n THEN Trim(CollapseWs(titles[n].text)) ELSE <<>>)

\* C10 as claimed: the title is the whitespace-collapsed, trimmed content of
\* the first <title> element; the example feed resolves to title "Example
\* Paper Title", authors "Jane Doe, John Roe", abstract "This is the
\* abstract.", source "arXiv".
C10_FirstTitle ==
    \A r \in Rids :
        FromFeed(r) =>
            /\ res[r].out.md.title = NthTitle(res[r].body, 1)
            /\ res[r].body = ExampleFeed =>
                  res[r].out.md = Md(res[r].in, ExampleTitle, ExampleAuthors,
                                     ExampleAbstract, "arXiv")

\* C10 (amended): the title is the whitespace-collapsed, trimmed content of
\* the second <title> element of the response (the first is the feed's own)
\* and "" when there are fewer than two; the example feed resolves to title
\* "", authors "Jane Doe, John Roe", abstract "This is the abstract.", source
\* "arXiv", and to title "Example Paper Title" when a feed-level <title>
\* precedes the entry.
C10_SecondTitle ==
    \A r \in Rids :
        FromFeed(r) =>
            /\ res[r].out.md.title = NthTitle(res[r].body, 2)
            /\ res[r].body = ExampleFeed =>
                  res[r].out.md = Md(res[r].in, EmptyStr, ExampleAuthors,
                                     ExampleAbstract, "arXiv")
            /\ res[r].body = EntryFeed =>
                  res[r].out.md = Md(res[r].in, ExampleTitle, ExampleAuthors,
                                     ExampleAbstract, "arXiv")

\* the entry behind a feed-level title was resolved
C10_Witness ==
    \E r \in Rids :
        /\ FromFeed(r)
        /\ res[r].body = EntryFeed
        /\ res[r].out.md.title = ExampleTitle

\* an OpenReview resolution that was answered from notes[0] of the document
FromNote(r) ==
    /\ Answered(r)
    /\ res[r].source = "OpenReview"
    /\ res[r].body.fmt = "openreview"
    /\ res[r].body.top = "note"
    /\ ~res[r].raised

\* the same member in the other of the two shapes
Reshape(m) ==
    IF m.shape = "bare" THEN Member("wrapped", m.v)
    ELSE IF m.shape = "wrapped" THEN Member("bare", m.v)
    ELSE m

OtherShape(body) ==
    [body EXCEPT !.title = Reshape(@), !.authors = Reshape(@), !.abstract = Reshape(@)]

\* the value a member carries in either shape, nothing when it is absent
Underlying(m) == IF m.shape \in {"bare", "wrapped"} THEN m.v ELSE <<>>

Shaped(body) ==
    /\ body.title.shape \in {"bare", "wrapped", "undef"}
    /\ body.authors.shape \in {"bare", "wrapped", "undef"}
    /\ body.abstract.shape \in {"bare", "wrapped", "undef"}

\* C11: OpenReview dual shape: a note carrying title, authors and abstract as
\* bare values and a note carrying the same values wrapped as {value: ...}
\* resolve to the same PaperMetadata, which holds the underlying values (the
\* authors joined with ", "); this includes empty strings, an empty author
\* list and a content with only some of the members.
C11_DualShape ==
    \A r \in Rids :
        FromNote(r) =>
            /\ res[r].out.kind = "value"
            /\ Returned(res[r].out.md) = parseOpenReview(res[r].in, OtherShape(res[r].body))
            /\ Shaped(res[r].body) =>
                  res[r].out.md =
                      Md(res[r].in, StrVal(Underlying(res[r].body.title)),
                         StrVal(Join(Underlying(res[r].body.authors), CommaSp)),
                         StrVal(Underlying(res[r].body.abstract)), "OpenReview")

\* a note with a wrapped empty title, wrapped authors and no abstract
C11_Witness ==
    \E r \in Rids :
        /\ FromNote(r)
        /\ res[r].body.title = Member("wrapped", <<>>)
        /\ res[r].body.authors =
              Member("wrapped", << <<"Jane", " ", "Doe">>, <<"John", " ", "Roe">> >>)
        /\ res[r].body.abstract = NoMember
        /\ res[r].out.md.authors = ExampleAuthors
        /\ res[r].out.md.title = EmptyStr

\* the labels fetchPaperMetadata hands to the generic resolver
GenericLabels == { "Springer", "Nature", "ScienceDirect", "GitHub", "Web" }

\* a resolution the generic resolver answered from the HTML it read
FromPage(r) ==
    /\ Answered(r)
    /\ res[r].source \in GenericLabels
    /\ res[r].body.fmt = "html"
    /\ ~res[r].raised

\* the contents, in document order, of the tags of one kind and key
Metas(body, kind, key) ==
    LET hits == SelectSeq(body.tags, LAMBDA g : g.kind = kind /\ g.key = key)
    IN  [i \in 1..Len(hits) |-> hits[i].content]

\* the text the fallback order of the claim picks for a field: tiers lists
\* the candidate lists from the highest priority down
RECURSIVE FirstTier(_)
FirstTier(tiers) ==
    IF tiers = <<>> THEN <<>>
    ELSE IF tiers[1] # <<>> THEN tiers[1][1]
    ELSE FirstTier(Tail(tiers))

TitleByOrder(body) ==
    LET titles == Metas(body, "title", "")
    IN  FirstTier(<< Metas(body, "name", "citation_title"),
                     Metas(body, "prop", "og:title"),
                     [i \in 1..Len(titles) |-> Trim(titles[i])] >>)

AuthorsByOrder(body) ==
    IF Metas(body, "name", "citation_author") # <<>>
    THEN Join(Metas(body, "name", "citation_author"), CommaSp)
    ELSE FirstTier(<< Metas(body, "name", "author") >>)

AbstractByOrder(body) ==
    FirstTier(<< Metas(body, "name", "citation_abstract"),
                 Metas(body, "name", "description"),
                 Metas(body, "prop", "og:description") >>)

\* C12: fallback order of the generic HTML resolver: the title is the
\* citation_title meta, else the og:title meta, else the <title> text; the
\* authors are all citation_author metas joined with ", " in document order,
\* else the author meta; the abstract is the citation_abstract meta, else the
\* description meta, else the og:description meta; a lower tier is used only
\* when every higher one is absent, wherever the tags stand in the document.
\* (Each value is returned through the resolver's entity decoding.)
C12_FallbackOrder ==
    \A r \in Rids :
        FromPage(r) =>
            /\ res[r].out.md.title = StrVal(decodeHtmlEntities(TitleByOrder(res[r].body)))
            /\ res[r].out.md.authors = StrVal(decodeHtmlEntities(AuthorsByOrder(res[r].body)))
            /\ res[r].out.md.abstract =
                  StrVal(decodeHtmlEntities(AbstractByOrder(res[r].body)))

\* a page with the og:title meta ahead of the citation_title meta
C12_Witness ==
    \E r \in Rids :
        /\ FromPage(r)
        /\ res[r].body.tags = << Tag("prop", "og:title", <<"R", "&amp;", "D">>),
                                 Tag("name", "citation_title", <<"Deep", " ", "Nets">>) >>
        /\ res[r].out.md.title = StrVal(<<"Deep", " ", "Nets">>)

\* the page has a <title> element, no citation_* meta and no Open Graph meta
OnlyTitleCase(body) ==
    /\ Metas(body, "title", "") # <<>>
    /\ \A i \in 1..Len(body.tags) :
         body.tags[i].key \notin { "citation_title", "citation_author",
                                   "citation_abstract", "og:title", "og:description" }

\* the page has nothing but <title> elements
BareTitleCase(body) ==
    /\ body.tags # <<>>
    /\ \A i \in 1..Len(body.tags) : body.tags[i].kind = "title"

\* C13 as claimed: for a page of the generic resolver with no citation_* and
\* no Open Graph meta but a populated <title>, the title is the trimmed text
\* of <title> and authors and abstract are both the empty string.
C13_TitleOnly ==
    \A r \in Rids :
        (FromPage(r) /\ OnlyTitleCase(res[r].body)) =>
            /\ res[r].out.md.title = StrVal(Trim(Metas(res[r].body, "title", "")[1]))
            /\ res[r].out.md.authors = EmptyStr
            /\ res[r].out.md.abstract = EmptyStr

\* C13 (amended): for a page of the generic resolver with a populated <title>
\* and no citation_*, Open Graph, author or description meta, the title is
\* the entity-decoded trimmed text of the first <title> and authors and
\* abstract are both the empty string; an author meta or a description meta
\* of such a page is returned as authors or abstract.
C13_TitleOnlyNoMeta ==
    \A r \in Rids :
        /\ (FromPage(r) /\ BareTitleCase(res[r].body)) =>
              /\ res[r].out.md.title =
                    StrVal(decodeHtmlEntities(Trim(Metas(res[r].body, "title", "")[1])))
              /\ res[r].out.md.authors = EmptyStr
              /\ res[r].out.md.abstract = EmptyStr
        /\ (FromPage(r) /\ OnlyTitleCase(res[r].body)) =>
              /\ res[r].out.md.authors =
                    StrVal(decodeHtmlEntities(FirstTier(<< Metas(res[r].body, "name", "author") >>)))
              /\ res[r].out.md.abstract =
                    StrVal(decodeHtmlEntities(
                        FirstTier(<< Metas(res[r].body, "name", "description") >>)))

\* a page whose only tag is <title>Q&amp;A</title> was resolved
C13_Witness ==
    \E r \in Rids :
        /\ FromPage(r)
        /\ res[r].body.tags = << Tag("title", "", <<"Q", "&amp;", "A">>) >>
        /\ res[r].out.md = Md(res[r].in, StrVal(<<"Q", "&", "A">>), EmptyStr, EmptyStr,
                              res[r].source)

\* the last response of resolution r declared a content-length above the cap
DeclaredOversize(r) == res[r].pc # "idle" /\ TooLarge(res[r].resp.clen)

\* C14: for any url ending in .pdf whose response declares a content-length
\* above the 50 MiB cap, resolve returns the all-empty result and no body
\* read is issued.
C14_OversizePdfUrl ==
    \A r \in Rids :
        ( /\ res[r].in.kind = "str"
          /\ EndsInPdf(res[r].in.s)
          /\ DeclaredOversize(r) ) =>
            /\ res[r].pc # "read"
            /\ res[r].nread = 0
            /\ Answered(r) => /\ res[r].out.kind = "value"
                              /\ res[r].out.md = EmptyMd(res[r].in, res[r].source)

\* C15: the cap is enforced on every path to the PDF extractor: the body of
\* a response that declared a content-length above 50 MiB is never read as
\* PDF bytes nor handed to the PDF parser, also when the PDF is detected from
\* the content-type of a url that does not look like a PDF.
C15_CapOnEveryPath ==
    \A r \in Rids :
        DeclaredOversize(r) =>
            /\ ~(res[r].pc = "read" /\ res[r].how = "bytes")
            /\ res[r].bytes = 0
            /\ res[r].parser = "none"

\* C16: oversize content is rejected before the download completes: a PDF
\* body of more than 50 MiB is never downloaded in full, and the resolution
\* of such a PDF is all-empty, also when the response declares no
\* content-length or one that is no number.
C16_OversizeRejected ==
    \A r \in Rids :
        /\ res[r].bytes <= MAX_PDF_SIZE
        /\ (Answered(r) /\ (res[r].bytes > MAX_PDF_SIZE \/ DeclaredOversize(r))
              /\ res[r].out.kind = "value") => AllEmpty(res[r].out.md)

\* C17: every PDF parser handle parsePdfBuffer creates is released before
\* parsePdfBuffer returns or raises: outside parsePdfBuffer no handle is
\* open, on success, when getInfo throws, when getText throws and when the
\* title/abstract code throws; none is open once the resolution completed.
C17_ParserReleased ==
    \A r \in Rids :
        /\ res[r].parser = "open" =>
              /\ res[r].stack # <<>>
              /\ Top(res[r]) = "parse"
              /\ res[r].pc \in {"getInfo", "getText", "destroy"}
        /\ Answered(r) => res[r].parser \in {"none", "destroyed", "failed"}

\* a resolution whose getInfo call threw has completed with the handle
\* destroyed
C17_Witness ==
    \E r \in Rids :
        /\ Answered(r)
        /\ res[r].parser = "destroyed"
        /\ res[r].raised
        /\ res[r].info = NoInfo
        /\ res[r].bytes > 0
        /\ res[r].out.md = EmptyMd(res[r].in, res[r].source)

\* C18: resolution order of IEEE and ACM: every IEEE url has its landing
\* page fetched and searched for a DOI, every ACM url with a DOI in its path
\* goes to the DOI resolver, and when no DOI is found the result is scraped
\* from the meta tags of the fetched landing page; this holds for an IEEE url
\* whose path is not of the form /document/<number> too.
C18_DoiFirstThenScrape ==
    \A r \in Rids :
        ( /\ Answered(r)
          /\ res[r].in.kind = "str"
          /\ res[r].source \in {"IEEE", "ACM"} ) =>
            /\ res[r].nfetch >= 1
            /\ (res[r].source = "ACM" /\ AcmDoiOf(res[r].in.s) # NoId) =>
                  res[r].ep = "crossref"
            /\ (res[r].body.fmt = "html" /\ PageDoi(res[r].body) = NoId /\ ~res[r].raised) =>
                  Returned(res[r].out.md) = parseMeta(res[r].in, res[r].body, res[r].source)

\* what resolution c holds when it runs alone from its start through the
\* completions tr
RECURSIVE RunAlone(_, _)
RunAlone(c, tr) ==
    IF tr = <<>> THEN c ELSE RunAlone(Apply(c, Head(tr)), Tail(tr))

StartOf(v) == fetchPaperMetadata([Idle EXCEPT !.via = "route"], v)

C20_Independent ==
    \A r \in Pair :
        res[r].pc # "idle" => res[r] = RunAlone(StartOf(res[r].in), trace[r])

\* two interleaved resolutions of the same DOI url: one read a malformed
\* CrossRef document and failed, the other returned the title; each made its
\* own call
C20_Witness ==
    /\ Answered("r1")
    /\ Answered("r2")
    /\ res["r1"].in = StrVal(<<"https://", "doi.org", "/", "10.1145/3290605">>)
    /\ res["r2"].in = res["r1"].in
    /\ res["r1"].body.fmt = "crossref"
    /\ res["r1"].body.top = "null"
    /\ res["r1"].raised
    /\ AllEmpty(res["r1"].out.md)
    /\ res["r1"].nfetch = 1
    /\ res["r2"].nfetch = 1
    /\ res["r2"].out.md.title = StrVal(<<"Deep", " ", "Nets">>)

(***************************************************************************)
(* C21: dispatch is a total mapping from label to handler.  A resolution    *)
(* whose url was labelled arXiv, DOI, PubMed, Semantic Scholar, OpenReview,  *)
(* IEEE or ACM is handled by that provider's resolver; a resolution with any *)
(* other label is handled by the generic HTML resolver, and what it returns  *)
(* carries the classified label.                                            *)
(***************************************************************************)
HandlerOf(label) ==
    CASE label = "arXiv" -> {"arxiv"}
      [] label = "DOI" -> {"doi"}
      [] label = "PubMed" -> {"pubmed"}
      [] label = "Semantic Scholar" -> {"s2"}
      [] label = "OpenReview" -> {"openreview"}
      [] label = "IEEE" -> {"ieee", "ieeeTry"}
      [] label = "ACM" -> {"acm", "acmTry"}
      [] OTHER -> {"generic"}

Dispatched(r) == res[r].pc # "idle" /\ res[r].in.kind = "str" /\ res[r].source \in Labels

C21_TotalDispatch ==
    \A r \in DOMAIN res :
        Dispatched(r) =>
            /\ res[r].handler \in HandlerOf(res[r].source)
            /\ (Answered(r) /\ res[r].handler = "generic"
                    => res[r].out.md.source = res[r].source)

(***************************************************************************)
(* C22: live updates.  Whenever a request is answered with success and has  *)
(* changed a stored record (create, update, delete, access tracking), an    *)
(* event was written to every client connected at that moment, within the   *)
(* step that answers the request.                                           *)
(***************************************************************************)
SuccessStatus == {200, 201}

C22_LiveUpdates ==
    [][ (papers' # papers /\ reply'.status \in SuccessStatus)
          => \A cl \in DOMAIN sseClients :
                 cl \in DOMAIN sseClients' /\ sseClients'[cl] # sseClients[cl] ]_vars

(***************************************************************************)
(* C27: url uniqueness of the record store.  After any sequence of create,  *)
(* update and delete requests no two stored papers have the same url, also   *)
(* after an update that sets a paper's url to the url of another stored      *)
(* paper, whatever the answer to that update.                               *)
(***************************************************************************)
C27_UrlUniqueness == \A p \in papers : \A q \in papers \ {p} : p.url # q.url

(***************************************************************************)
(* C28: rejected requests have no effect.  A create answered 400 or 409 and *)
(* an update, delete or access-tracking request answered 404 leave the      *)
(* stored collection unchanged and write to no connected client.            *)
(***************************************************************************)
Rejected ==
    \/ /\ \E v \in CreateInputs, id \in PaperIds : CreatePaper(v, id)
       /\ reply'.status \in {400, 409}
    \/ /\ \/ \E id \in PaperIds, t \in UpdateTitles, v \in UpdateUrls : UpdatePaper(id, t, v)
          \/ \E id \in PaperIds : DeletePaper(id)
          \/ \E id \in PaperIds : AccessPaper(id)
       /\ reply'.status = 404

C28_RejectedNoEffect == [][ Rejected => UNCHANGED <<papers, sseClients>> ]_vars

\* a create was answered 409 while a paper is stored and a client listens
C28_Witness ==
    /\ reply = Answer("create", 409)
    /\ papers # {}
    /\ DOMAIN sseClients # {}

(***************************************************************************)
(* C23: run to completion.  When every outbound call, body read and parser  *)
(* operation eventually returns or fails, every dispatched resolution       *)
(* eventually returns a metadata value to its caller, and a resolution      *)
(* issues at most two outbound calls.                                       *)
(***************************************************************************)
Pending(r) == res[r].pc \notin {"idle", "done"}
ReturnedValue(r) == res[r].pc = "done" /\ res[r].out.kind = "value"

C23_RunsToCompletion ==
    \A r \in Rids :
        /\ [](res[r].nfetch <= 2)
        /\ [](res[r].pc = "done" /\ res[r].source \in Labels => ReturnedValue(r))
        /\ (Pending(r) ~> ReturnedValue(r))

\* an IEEE resolution has returned after the landing page and CrossRef
C23_Witness ==
    /\ ReturnedValue("r1")
    /\ res["r1"].source = "IEEE"
    /\ res["r1"].nfetch = 2

(***************************************************************************)
(* C24: the generic resolver issues exactly one HTTP GET per resolution of  *)
(* a url, on every path: for a url that looks like a PDF the fetch of the   *)
(* PDF extractor, and when the content type reveals a PDF the downloaded    *)
(* bytes are parsed without a second fetch.                                 *)
(***************************************************************************)
C24_OneGet ==
    \A r \in DOMAIN res :
        (Dispatched(r) /\ res[r].handler = "generic") => res[r].nfetch = 1

\* a page url answered with a PDF content type: parsed, the parser released,
\* and one call made
C24_Witness ==
    /\ Answered("r1")
    /\ res["r1"].handler = "generic"
    /\ ~IsPdfUrl(res["r1"].in.s)
    /\ res["r1"].parser = "destroyed"
    /\ res["r1"].bytes > 0
    /\ res["r1"].nfetch = 1

\* a url that looks like a PDF was resolved through the PDF extractor
C24_WitnessPdfUrl ==
    /\ Answered("r1")
    /\ res["r1"].handler = "generic"
    /\ IsPdfUrl(res["r1"].in.s)
    /\ res["r1"].parser = "destroyed"
    /\ res["r1"].nfetch = 1

(***************************************************************************)
(* C25: decodeHtmlEntities decodes every entity occurrence of its input     *)
(* exactly once: it equals the single left-to-right pass that replaces the  *)
(* six entities, so that what a replacement produced is not decoded again,  *)
(* and decodeHtmlEntities(escapeHtml(s)) = trim(s).                         *)
(***************************************************************************)
\* one pass from left to right over the characters of s
RECURSIVE SinglePass(_)
SinglePass(s) ==
    IF s = <<>> THEN <<>>
    ELSE IF Head(s) = "&" /\ Len(s) > 1 /\ s[2] \in EntityNames
         THEN <<EntityChar(s[2])>> \o SinglePass(SubSeq(s, 3, Len(s)))
    ELSE <<Head(s)>> \o SinglePass(Tail(s))

DecodeOnce(s) == Trim(SinglePass(Chars(s)))

C25_DecodesOnce ==
    /\ probe.pc \in {"escaped", "done"}
          => Chars(probe.decoded) = Chars(DecodeOnce(probe.in))
    /\ probe.pc = "done" => Chars(probe.back) = Chars(Trim(probe.in))

(***************************************************************************)
(* C26: the authors string a provider resolver returns has no empty name    *)
(* component: no leading ", ", no trailing ", " and no two separators in a  *)
(* row, also when the response lists a contributor without a usable name.   *)
(***************************************************************************)
StartsWith(a, x) == Len(a) >= Len(x) /\ SubSeq(a, 1, Len(x)) = x
EndsWith(a, x) == Len(a) >= Len(x) /\ SubSeq(a, Len(a) - Len(x) + 1, Len(a)) = x

HasEmptyName(a) ==
    \/ StartsWith(a, CommaSp)
    \/ EndsWith(a, CommaSp)
    \/ Includes(a, CommaSp \o CommaSp)

C26_NoEmptyName ==
    \A r \in DOMAIN res :
        (ReturnedValue(r) /\ res[r].handler \in {"doi", "pubmed", "s2"})
            => ~HasEmptyName(res[r].out.md.authors.s)

(***************************************************************************)
(* C29: the reconnect state machine of the client.  The counter of          *)
(* reconnect attempts never exceeds 5; an open resets it to 0; a disconnect *)
(* with the counter at 5 disables real-time sync, and once sync is disabled *)
(* no connection attempt is scheduled or made; while sync is enabled a      *)
(* disconnect that reaches attemptReconnect schedules exactly one attempt,  *)
(* with delay 3000 ms times min(attempt number, 3).                         *)
(***************************************************************************)
\* a step in which the connection is lost and attemptReconnect runs
Disconnected == client.pc = "run" /\ client.sock # "closed" /\ client'.sock = "closed"

Quiet(c) == c.timers = <<>> /\ c.sock \notin {"connecting", "open"}

C29_Reconnect ==
    /\ [](client.kind # "none" => client.attempts <= 5)
    /\ [](client.kind # "none" /\ ~client.enabled => Quiet(client))
    /\ [][ client.kind # "none" =>
             /\ (client'.sock = "open" /\ client.sock # "open") => client'.attempts = 0
             /\ ~client.enabled => ~client'.enabled
             /\ (Disconnected /\ client.enabled /\ client.attempts = 5)
                    => ~client'.enabled /\ client'.timers = client.timers
             /\ (Disconnected /\ client.enabled /\ client.attempts < 5)
                    => /\ client'.enabled
                       /\ client'.attempts = client.attempts + 1
                       /\ client'.timers =
                            Append(client.timers,
                                   Timer(3000 * Min(client'.attempts, 3))) ]_vars

\* five reconnect attempts failed, the next disconnect disabled the sync
C29_Witness ==
    /\ client.kind = "sse"
    /\ ~client.enabled
    /\ client.attempts = 5
    /\ client.sock = "closed"
    /\ client.timers = <<>>

(***************************************************************************)
(* C30: the WebSocket heartbeat.  An open socket whose last ping is still   *)
(* unanswered at a tick is terminated and removed from `clients` at that    *)
(* tick, so that a socket whose client stopped answering does not survive   *)
(* two ticks; the heartbeat terminates no open socket whose pings were all  *)
(* answered; and no message is sent to a socket that is not in `clients` or *)
(* is not open.                                                             *)
(***************************************************************************)
C30_Heartbeat ==
    /\ [](\A s \in DOMAIN wss : (wss[s].conn = "open" /\ ~wss[s].answers) => wss[s].ticks < 2)
    /\ [][ \A s \in DOMAIN wss :
             /\ (HeartbeatTick /\ wss[s].conn = "open" /\ wss[s].pinged)
                    => (wss'[s].terminated /\ ~wss'[s].inClients /\ wss'[s].conn # "open")
             /\ (wss'[s].terminated /\ ~wss[s].terminated /\ wss[s].conn = "open")
                    => wss[s].pinged
             /\ wss'[s].msgs # wss[s].msgs
                    => (wss'[s].inClients /\ wss'[s].conn = "open") ]_vars

\* s1 stopped answering and was terminated by the heartbeat while s2, which
\* answered its ping, is open and in `clients`
C30_Witness ==
    /\ DOMAIN wss = Sockets
    /\ wss["s1"].terminated
    /\ ~wss["s1"].answers
    /\ ~wss["s1"].inClients
    /\ wss["s2"].conn = "open"
    /\ wss["s2"].inClients
    /\ wss["s2"].isAlive
    /\ wss["s2"].answers

====
